---- MODULE Spec2Model ----
(***************************************************************************)
(* Verification model of makcu-cpp: the Device connection lifecycle        *)
(* (connect / disconnect / setBaudRate / health monitor), the command      *)
(* path to the serial port, the SerialPort request tracking, and the       *)
(* button-mask handler.                                                    *)
(*                                                                         *)
(* Every shared-memory access of the C++ code that another thread can      *)
(* observe is one step of the thread that performs it; the program         *)
(* counter of a thread (pc, mpc) names the next source statement.          *)
(***************************************************************************)
EXTENDS Integers, Sequences, FiniteSets, TLC

(***************************************************************************)
(* Bounds of the model.                                                    *)
(***************************************************************************)
\* number of health-monitor threads that can exist at the same time
MaxMonitors == 2
\* number of tracked commands the SerialPort may be given
MaxCmds == 2
\* highest button index the port's listener reports (0..4 are MouseButton)
MaxButton == 5

(***************************************************************************)
(* Program constants.                                                      *)
(***************************************************************************)
INITIAL_BAUD_RATE == 115200
HIGH_SPEED_BAUD_RATE == 4000000

\* application threads calling the public API
Users == {"u1", "u2"}
\* health-monitor thread instances, one per monitoringThread = std::jthread(...)
Monitors == 1..MaxMonitors
\* command ids handed out by SerialPort::generateCommandId
CmdIds == 1..MaxCmds
\* port names: "" is the empty argument, "P" the port of the device
NoPort == ""
DevPort == "P"
\* button indexes handed to handleButtonEvent
Buttons == 0..MaxButton

VARIABLES
    \* ---- Device::Impl ----
    connected,               \* std::atomic<bool> connected (the live flag)
    atomicStatus,            \* std::atomic<ConnectionStatus>
    deviceInfo,              \* DeviceInfo: [port, isConnected]
    currentButtonMask,       \* std::atomic<uint8_t>
    lockStateCache,          \* std::atomic<uint16_t>, bit N: LockTarget N locked
    lockStateCacheValid,     \* std::atomic<bool>
    buttonMonitoringEnabled, \* std::atomic<bool>
    mutex,                   \* owner of Impl::mutex, or "free"
    monitoringThread,        \* std::jthread handle: monitor id, 0 = not joinable
    stopRequested,           \* stop token of each monitor instance
    mpc,                     \* program counter of each monitor instance
    \* ---- SerialPort ----
    m_isOpen,
    m_portName,
    m_baudRate,
    m_commandCounter,
    m_pendingCommands,       \* id -> PendingCommand, for the pending ids
    m_pendingCommandOrder,   \* std::deque<int>
    promise,                 \* id -> state of PendingCommand::promise
    \* ---- the device and the link ----
    devicePresent,           \* the USB device is plugged in
    devInbox,                \* tracked commands received, not yet answered
    \* ---- application threads ----
    pc,
    op,                      \* the public operation a thread is inside
    loc,                     \* locals of the running operation
    \* ---- Device and BatchCommandBuilder ----
    m_lifetimeToken,         \* the std::atomic<bool> Device and its builders share
    m_commands,              \* BatchCommandBuilder::m_commands
    \* ---- user callbacks (Impl lines 194-195) ----
    mouseButtonCallback,     \* nullptr, or what the registered callable does
    connectionCallback,      \* nullptr, or what the registered callable does
    \* ---- history ----
    hist

devVars == <<connected, atomicStatus, deviceInfo, currentButtonMask,
             lockStateCache, lockStateCacheValid, buttonMonitoringEnabled>>
monVars == <<monitoringThread, stopRequested, mpc>>
portVars == <<m_isOpen, m_portName, m_baudRate, m_commandCounter,
              m_pendingCommands, m_pendingCommandOrder, promise, devInbox>>
thrVars == <<pc, op, loc>>
opVars == <<m_lifetimeToken, m_commands, mouseButtonCallback, connectionCallback>>
vars == <<devVars, mutex, monVars, portVars, devicePresent, thrVars, opVars, hist>>

(***************************************************************************)
(* Small helpers.                                                          *)
(***************************************************************************)
RECURSIVE BitOr(_, _)
\* bitwise OR of two naturals (std::atomic::fetch_or operand arithmetic)
BitOr(a, b) ==
    IF a = 0 THEN b
    ELSE IF b = 0 THEN a
    ELSE (IF (a % 2 = 1) \/ (b % 2 = 1) THEN 1 ELSE 0) + 2 * BitOr(a \div 2, b \div 2)

RECURSIVE BitAndNot(_, _)
\* a & ~b on naturals (the uint8_t cast keeps the low 8 bits of ~b)
BitAndNot(a, b) ==
    IF a = 0 THEN 0
    ELSE (IF (a % 2 = 1) /\ (b % 2 = 0) THEN 1 ELSE 0) + 2 * BitAndNot(a \div 2, b \div 2)

\* static_cast<uint8_t>(1u << button)
ButtonBit(button) == (2 ^ button) % 256

(***************************************************************************)
(* Command strings: CommandCache (makcu.cpp 106-170) and the rendering of  *)
(* the move, wheel and serial commands (436-539, 1234-1241).               *)
(***************************************************************************)
BUTTON_COUNT == 5
LOCK_TARGET_COUNT == 7
MAX_COORD == 32767
MIN_COORD == -32768
MAX_SEGMENTS == 1000

\* MouseButton: LEFT 0, RIGHT 1, MIDDLE 2, SIDE1 3, SIDE2 4, UNKNOWN 255
MouseButtons == 0 .. (BUTTON_COUNT - 1)
UNKNOWN == 255
\* LockTarget: X 0, Y 1, LEFT 2, RIGHT 3, MIDDLE 4, SIDE1 5, SIDE2 6
LockTargets == 0 .. (LOCK_TARGET_COUNT - 1)

nullptr == "nullptr"

\* the arrays are indexed by the enum value; a TLA+ sequence starts at 1
press_commands == <<"km.left(1)", "km.right(1)", "km.middle(1)", "km.ms1(1)", "km.ms2(1)">>

release_commands == <<"km.left(0)", "km.right(0)", "km.middle(0)", "km.ms1(0)", "km.ms2(0)">>

lock_commandsMut ==
    <<"km.lock_mx(1)", "km.lock_my(1)", "km.lock_ml(1)", "km.lock_mm(1)",
      "km.lock_mr(1)", "km.lock_ms1(1)", "km.lock_ms2(1)">>

lock_commands ==
    <<"km.lock_mx(1)", "km.lock_my(1)", "km.lock_ml(1)", "km.lock_mr(1)",
      "km.lock_mm(1)", "km.lock_ms1(1)", "km.lock_ms2(1)">>

unlock_commands ==
    <<"km.lock_mx(0)", "km.lock_my(0)", "km.lock_ml(0)", "km.lock_mr(0)",
      "km.lock_mm(0)", "km.lock_ms1(0)", "km.lock_ms2(0)">>

\* getPressCommand: nullptr if the enum value is out of range
getPressCommand(button) ==
    IF button < BUTTON_COUNT THEN press_commands[button + 1] ELSE nullptr

\* getReleaseCommand
getReleaseCommand(button) ==
    IF button < BUTTON_COUNT THEN release_commands[button + 1] ELSE nullptr

\* lockMouseX .. lockMouseSide2, lines 976-979 and the like: the method of
\* target takes idx = to_underlying(target) and picks lock or unlock
lockCommand(target, lock) ==
    IF lock THEN lock_commands[target + 1] ELSE unlock_commands[target + 1]

\* the decimal digit d as a character
Digit(d) == <<"0", "1", "2", "3", "4", "5", "6", "7", "8", "9">>[d + 1]

RECURSIVE NatToString(_)
\* the decimal notation of a natural number, most significant digit first
NatToString(n) ==
    IF n < 10 THEN Digit(n) ELSE NatToString(n \div 10) \o Digit(n % 10)

\* std::to_string of an int32_t or uint32_t
to_string(n) == IF n < 0 THEN "-" \o NatToString(0 - n) ELSE NatToString(n)

InRangeMut(v) == TRUE

\* the range test of a coordinate, control offset or wheel delta:
\* !(v < MIN_COORD || v > MAX_COORD)
InRange(v) == ~(v < MIN_COORD \/ v > MAX_COORD)

\* a command handed to executeCommand; valid is FALSE when the argument
\* validation returned false before anything was rendered
Request(valid, text) == [valid |-> valid, text |-> text]
Cached(command) == Request(TRUE, command)

\* executeMoveCommand lines 436-463 up to the call of executeCommand
MoveRequest(x, y) ==
    LET text == "km.move(" \o to_string(x) \o "," \o to_string(y) \o ")" IN
    Request(InRange(x) /\ InRange(y) /\ ~(Len(text) > 512), text)

\* executeSmoothMoveCommand lines 466-490
SmoothMoveRequest(x, y, segments) ==
    Request(InRange(x) /\ InRange(y) /\ ~(segments > MAX_SEGMENTS),
            "km.move(" \o to_string(x) \o "," \o to_string(y) \o ","
               \o to_string(segments) \o ")")

\* executeBezierMoveCommand lines 493-522
BezierMoveRequest(x, y, segments, ctrl_x, ctrl_y) ==
    Request(InRange(x) /\ InRange(y) /\ InRange(ctrl_x) /\ InRange(ctrl_y)
               /\ ~(segments > MAX_SEGMENTS),
            "km.move(" \o to_string(x) \o "," \o to_string(y) \o ","
               \o to_string(segments) \o "," \o to_string(ctrl_x) \o ","
               \o to_string(ctrl_y) \o ")")

\* executeWheelCommand lines 525-539
WheelRequest(delta) ==
    Request(InRange(delta), "km.wheel(" \o to_string(delta) \o ")")

\* the characters 0x20 .. 0x5F and 0x61 .. 0x7E in the order of their codes
\* (0x60 cannot be written in a string here; no literal of the source has it)
PrintableLow == " !\"#$%&'()*+,-./0123456789:;<=>?@ABCDEFGHIJKLMNOPQRSTUVWXYZ[\\]^_"
PrintableHigh == "abcdefghijklmnopqrstuvwxyz{|}~"

\* the byte of a character literal of the source
CharCode(ch) ==
    IF \E i \in 1 .. Len(PrintableLow) : SubSeq(PrintableLow, i, i) = ch
    THEN 31 + CHOOSE i \in 1 .. Len(PrintableLow) : SubSeq(PrintableLow, i, i) = ch
    ELSE 96 + CHOOSE i \in 1 .. Len(PrintableHigh) : SubSeq(PrintableHigh, i, i) = ch

RECURSIVE Bytes(_)
\* the bytes of a string literal of the source
Bytes(text) ==
    IF text = "" THEN << >> ELSE <<CharCode(Head(text))>> \o Bytes(Tail(text))

\* line 55
HEX_DIGITS == "0123456789ABCDEF"

\* HEX_DIGITS[k]
HexDigit(k) == Bytes(SubSeq(HEX_DIGITS, k + 1, k + 1))

\* std::iscntrl of an unsigned char in the "C" locale, which the library
\* never changes
iscntrl(ch) == ch < 32 \/ ch = 127

\* the escape that forgets the backslash itself
EscapeCharMut(ch) ==
    IF ch = CharCode("\\") THEN <<ch>>
    ELSE IF ch = CharCode("'") THEN Bytes("\\'")
    ELSE IF ch = 10 THEN Bytes("\\n")
    ELSE IF ch = 13 THEN Bytes("\\r")
    ELSE IF ch = 9 THEN Bytes("\\t")
    ELSE IF iscntrl(ch)
    THEN Bytes("\\x") \o HexDigit((ch \div 16) % 16) \o HexDigit(ch % 16)
    ELSE <<ch>>

\* the switch of escapeSingleQuotedCommandString (lines 61-85) for one byte
\* ch of the serial: '\\', '\'', '\n' (10), '\r' (13), '\t' (9), and the
\* default branch with HEX_DIGITS[(ch >> 4) & 0x0F] and HEX_DIGITS[ch & 0x0F]
EscapeChar(ch) ==
    IF ch = CharCode("\\") THEN Bytes("\\\\")
    ELSE IF ch = CharCode("'") THEN Bytes("\\'")
    ELSE IF ch = 10 THEN Bytes("\\n")
    ELSE IF ch = 13 THEN Bytes("\\r")
    ELSE IF ch = 9 THEN Bytes("\\t")
    ELSE IF iscntrl(ch)
    THEN Bytes("\\x") \o HexDigit((ch \div 16) % 16) \o HexDigit(ch % 16)
    ELSE <<ch>>

RECURSIVE escapeSingleQuotedCommandString(_)
\* the serial and the result are sequences of bytes (0 .. 255)
escapeSingleQuotedCommandString(value) ==
    IF value = << >> THEN << >>
    ELSE EscapeChar(Head(value)) \o escapeSingleQuotedCommandString(Tail(value))

\* the value of a decimal digit, -1 for any other character
DigitValue(ch) ==
    IF \E d \in 0 .. 9 : Digit(d) = ch
    THEN CHOOSE d \in 0 .. 9 : Digit(d) = ch
    ELSE 0 - 1

\* the largest value of the int parsedValue (line 39)
IntMax == 2147483647

RECURSIVE FromCharsDigits(_, _, _, _)
\* the digit loop of std::from_chars: ptr is the position of the next
\* character; the digits are consumed to the end of the run even when the
\* value no longer fits an int (the negative limit is one larger in
\* magnitude; both outcomes are an error to the caller)
FromCharsDigits(text, ptr, value, ec) ==
    IF ptr > Len(text) \/ DigitValue(SubSeq(text, ptr, ptr)) < 0
    THEN [ptr |-> ptr, ec |-> ec, value |-> value]
    ELSE LET d == DigitValue(SubSeq(text, ptr, ptr)) IN
         IF ec = "ok" /\ value <= (IntMax - d) \div 10
         THEN FromCharsDigits(text, ptr + 1, value * 10 + d, "ok")
         ELSE FromCharsDigits(text, ptr + 1, value, "result_out_of_range")

\* std::from_chars(begin, end, parsedValue) of line 42, base 10: an optional
\* minus sign (no plus sign, no white space) and then at least one digit;
\* ptr is the position where the parse ended, 1 when nothing matched
from_chars(text) ==
    LET start == IF Len(text) > 0 /\ Head(text) = "-" THEN 2 ELSE 1
        r == FromCharsDigits(text, start, 0, "ok")
    IN  IF r.ptr = start
        THEN [ptr |-> 1, ec |-> "invalid_argument", value |-> 0]
        ELSE [r EXCEPT !.value = IF start = 2 THEN 0 - @ ELSE @]

nullopt == 0 - 1

\* the parse without the test that it consumed the whole text
parseUint8DecimalMut(valueText) ==
    LET r == from_chars(valueText) IN
    IF r.ec # "ok" THEN nullopt
    ELSE IF r.value < 0 \/ r.value > 255 THEN nullopt
    ELSE r.value

\* parseUint8Decimal (lines 38-52): nullopt (-1) unless the whole text
\* parses as an int and the int is in 0..255
parseUint8Decimal(valueText) ==
    LET r == from_chars(valueText) IN
    IF r.ec # "ok" \/ r.ptr # Len(valueText) + 1 THEN nullopt
    ELSE IF r.value < 0 \/ r.value > 255 THEN nullopt
    ELSE r.value

(***************************************************************************)
(* The baud-rate change frame of performBaudRateChange (makcu.cpp 269-277) *)
(***************************************************************************)
ByteOfMut(baud, k) == (baud \div (2 ^ (8 * (3 - k)))) % 256

\* static_cast<uint8_t>((baud >> 8k) & 0xFF) of a uint32_t (the rates of
\* the model stay below 2^31, the largest integer of the checker)
ByteOf(baud, k) == (baud \div (2 ^ (8 * k))) % 256

\* 0xDE 0xAD 0x05 0x00 0xA5 and the four bytes of the rate
BaudFrame(baud) ==
    <<222, 173, 5, 0, 165, ByteOf(baud, 0), ByteOf(baud, 1), ByteOf(baud, 2), ByteOf(baud, 3)>>

NoValue == [st |-> "unset", for |-> 0, text |-> ""]
Value(id, text) == [st |-> "value", for |-> id, text |-> text]
Failure(kind) == [st |-> kind, for |-> 0, text |-> ""]

\* locals of an operation; called lists the invocations of the button
\* callback by the call; notified records that the call has invoked the
\* connection callback, wrote what the call has written to the port so far
DefaultLoc == [port |-> NoPort, future |-> 0, shouldNotify |-> FALSE,
               newMon |-> 0, rate |-> 0, baud |-> 0,
               validate |-> FALSE, recover |-> FALSE,
               target |-> 0, lock |-> FALSE, cache |-> 0,
               button |-> 0, pressed |-> FALSE,
               args |-> << >>, step |-> 0, acc |-> TRUE, attempt |-> 0,
               wrote |-> << >>, called |-> << >>,
               notified |-> FALSE, res |-> FALSE]

(***************************************************************************)
(* SerialPort (serialport.h declares it; its translation unit is not part  *)
(* of the sources, so the operations follow the Dispatcher/PortIO          *)
(* description).                                                           *)
(***************************************************************************)
\* SerialPort::isActuallyConnected: the handle is open and the OS still
\* reports the device
isActuallyConnected == m_isOpen /\ devicePresent

\* platformWrite succeeds on an open handle whose device is still there
WriteSucceeds == m_isOpen /\ devicePresent

\* ids of m_pendingCommandOrder that expect a response, oldest first
RECURSIVE ExpectingIn(_)
ExpectingIn(order) ==
    IF order = << >> THEN << >>
    ELSE IF m_pendingCommands[Head(order)].expect_response
         THEN <<Head(order)>> \o ExpectingIn(Tail(order))
         ELSE ExpectingIn(Tail(order))

RECURSIVE Without(_, _)
\* the deque without the ids of S
Without(order, S) ==
    IF order = << >> THEN << >>
    ELSE IF Head(order) \in S THEN Without(Tail(order), S)
         ELSE <<Head(order)>> \o Without(Tail(order), S)

\* m_pendingCommands without the ids of S
Erase(S) == [i \in (DOMAIN m_pendingCommands) \ S |-> m_pendingCommands[i]]

ResponseTargetMut ==
    IF ExpectingIn(m_pendingCommandOrder) = << >> THEN 0
    ELSE ExpectingIn(m_pendingCommandOrder)[Len(ExpectingIn(m_pendingCommandOrder))]

\* the pending command a text response is correlated to: the oldest one
\* that expects a response (0: none)
ResponseTarget ==
    IF ExpectingIn(m_pendingCommandOrder) = << >> THEN 0
    ELSE Head(ExpectingIn(m_pendingCommandOrder))

TimedOutCommandsMut == DOMAIN m_pendingCommands

\* the pending commands the sweep fails: those whose deadline has elapsed
TimedOutCommands == {i \in DOMAIN m_pendingCommands : m_pendingCommands[i].expired}

\* SerialPort::close: stop the listener, fail every pending command
PortClose ==
    /\ m_isOpen' = FALSE
    /\ promise' = [i \in DOMAIN promise |->
                     IF i \in DOMAIN m_pendingCommands
                     THEN Failure("Disconnected") ELSE promise[i]]
    /\ m_pendingCommands' = << >>
    /\ m_pendingCommandOrder' = << >>
    /\ UNCHANGED <<m_portName, m_baudRate, m_commandCounter, devInbox>>

\* SerialPort::open(port, baudRate): a handle that is still open is closed
\* first; the open succeeds only if the device is there
PortOpen(port, baudRate, ok) ==
    /\ m_isOpen' = ok
    /\ m_portName' = IF ok THEN port ELSE m_portName
    /\ m_baudRate' = IF ok THEN baudRate ELSE m_baudRate
    /\ promise' = [i \in DOMAIN promise |->
                     IF i \in DOMAIN m_pendingCommands
                     THEN Failure("Disconnected") ELSE promise[i]]
    /\ m_pendingCommands' = << >>
    /\ m_pendingCommandOrder' = << >>
    /\ UNCHANGED <<m_commandCounter, devInbox>>

\* SerialPort::sendTrackedCommand: take the next id, queue a PendingCommand
\* and write the text; on a closed port the future fails at once
PortSendTracked(command, expectResponse) ==
    LET id == m_commandCounter + 1 IN
    /\ m_commandCounter' = id
    /\ IF m_isOpen
       THEN /\ m_pendingCommands' =
                 [i \in (DOMAIN m_pendingCommands) \cup {id} |->
                    IF i = id
                    THEN [command |-> command, expect_response |-> expectResponse,
                          expired |-> FALSE]
                    ELSE m_pendingCommands[i]]
            /\ m_pendingCommandOrder' = Append(m_pendingCommandOrder, id)
            /\ promise' = [promise EXCEPT ![id] = NoValue]
            /\ devInbox' = IF devicePresent /\ expectResponse
                           THEN Append(devInbox, id) ELSE devInbox
       ELSE /\ promise' = [promise EXCEPT ![id] = Failure("Disconnected")]
            /\ UNCHANGED <<m_pendingCommands, m_pendingCommandOrder, devInbox>>
    /\ UNCHANGED <<m_isOpen, m_portName, m_baudRate>>

\* SerialPort::processResponse(line): complete the oldest pending command
\* that expects a response; a line nobody waits for is dropped
PortProcessResponse(line) ==
    LET id == ResponseTarget IN
    /\ IF id = 0
       THEN UNCHANGED <<m_pendingCommands, m_pendingCommandOrder, promise>>
       ELSE /\ promise' = [promise EXCEPT ![id] = line]
            /\ m_pendingCommands' = Erase({id})
            /\ m_pendingCommandOrder' = Without(m_pendingCommandOrder, {id})
    /\ UNCHANGED <<m_isOpen, m_portName, m_baudRate, m_commandCounter>>

\* SerialPort::cleanupTimedOutCommands: fail and remove the expired commands
PortCleanupTimedOut ==
    LET S == TimedOutCommands IN
    /\ promise' = [i \in DOMAIN promise |-> IF i \in S THEN Failure("TimedOut") ELSE promise[i]]
    /\ m_pendingCommands' = Erase(S)
    /\ m_pendingCommandOrder' = Without(m_pendingCommandOrder, S)
    /\ UNCHANGED <<m_isOpen, m_portName, m_baudRate, m_commandCounter, devInbox>>

(***************************************************************************)
(* Bookkeeping of the application threads.                                 *)
(***************************************************************************)
Goto(t, label) == pc' = [pc EXCEPT ![t] = label]


\* the public operation of t reaches its return statement with value res
Return(t, res, h) ==
    /\ pc' = [pc EXCEPT ![t] = "ret"]
    /\ loc' = [loc EXCEPT ![t].res = res]
    /\ hist' = h
    /\ UNCHANGED op

\* the try blocks of lines 342-345 and 359-364: whether an exception of
\* the callable leaves the block
EscapesMut(callback) == callback = "throws"
Escapes(callback) == FALSE

\* where notifyConnectionChange (lines 348-365) leaves its thread: nothing
\* is invoked with no callback registered; a callable that calls
\* getDeviceInfo() enters it; an exception that leaves the try block
\* unwinds the thread; else the callable returns and the thread goes on
AfterCallback(callback, body, unwound, next) ==
    IF callback = nullptr THEN next
    ELSE IF callback = "getDeviceInfo" THEN body
    ELSE IF callback = "throws" /\ Escapes(callback) THEN unwound
    ELSE next

\* the callable "disconnect" calls disconnect() when it is told that the
\* connection is lost, and returns at once when told that it is up
DisconnectsOn(callback, isConnected) == callback = "disconnect" /\ ~isConnected

\* notifyConnectionChange (lines 348-365) as the last statement of the
\* operation of t, which then returns res; a callable that disconnects
\* runs disconnect() (line 732) on this thread before it returns
NotifyAndReturn(t, res, h) ==
    /\ pc' = [pc EXCEPT ![t] = IF DisconnectsOn(connectionCallback, res) THEN "d_lock"
                                ELSE AfterCallback(connectionCallback, "cb_lock", "unwound", "ret")]
    /\ loc' = [loc EXCEPT ![t].res = res, ![t].notified = connectionCallback # nullptr]
    /\ hist' = h
    /\ UNCHANGED op

\* the callable of thread t is in getDeviceInfo(), line 776:
\* std::lock_guard lock(m_impl->mutex)
CallbackLock(t) ==
    /\ pc[t] = "cb_lock"
    /\ mutex = "free"
    /\ mutex' = t
    /\ pc' = [pc EXCEPT ![t] = "cb_unlock"]
    /\ UNCHANGED <<devVars, monVars, portVars, devicePresent, op, loc, opVars, hist>>

\* lines 777-780: the copy of deviceInfo is returned, the lock released;
\* the callable returns and so does the operation
CallbackUnlock(t) ==
    /\ pc[t] = "cb_unlock"
    /\ mutex' = "free"
    /\ pc' = [pc EXCEPT ![t] = "ret"]
    /\ UNCHANGED <<devVars, monVars, portVars, devicePresent, op, loc, opVars, hist>>

\* the caller takes the result and the locals (the std::future among them)
\* are destroyed; the thread is free for its next call
Leave(t) ==
    /\ pc[t] = "ret"
    /\ pc' = [pc EXCEPT ![t] = "idle"]
    /\ op' = [op EXCEPT ![t] = "none"]
    /\ loc' = [loc EXCEPT ![t] = DefaultLoc]
    /\ promise' = IF loc[t].future # 0
                  THEN [promise EXCEPT ![loc[t].future] = NoValue]
                  ELSE promise
    /\ UNCHANGED <<devVars, mutex, monVars, m_isOpen, m_portName, m_baudRate,
                   m_commandCounter, m_pendingCommands, m_pendingCommandOrder,
                   devInbox, devicePresent, hist>>
    /\ UNCHANGED opVars

\* Device::findFirstDevice: the first enumerated candidate port, "" if none
findFirstDevice == IF devicePresent THEN DevPort ELSE NoPort

\* the monitor id the next std::jthread gets
NextMonitor ==
    CHOOSE m \in Monitors : mpc[m] = "unborn" /\ \A k \in Monitors : k < m => mpc[k] # "unborn"

(***************************************************************************)
(* Device::connect  (makcu.cpp 602-706)                                    *)
(***************************************************************************)
\* application thread t calls connect(port)
ConnectCall(t, port) ==
    /\ pc[t] = "idle"
    /\ pc' = [pc EXCEPT ![t] = "c_lock"]
    /\ op' = [op EXCEPT ![t] = "connect"]
    /\ loc' = [loc EXCEPT ![t] = [DefaultLoc EXCEPT !.port = port]]
    /\ hist' = [hist EXCEPT !.quiesced = FALSE]
    /\ UNCHANGED <<devVars, mutex, monVars, portVars, devicePresent>>
    /\ UNCHANGED opVars

\* line 603: std::unique_lock lock(m_impl->mutex)
ConnectLock(t) ==
    /\ pc[t] = "c_lock"
    /\ mutex = "free"
    /\ mutex' = t
    /\ Goto(t, "c_check")
    /\ UNCHANGED <<devVars, monVars, portVars, devicePresent, op, loc, hist>>
    /\ UNCHANGED opVars

AlreadyConnectedMut == FALSE

\* line 605: if (m_impl->connected.load())
AlreadyConnected == connected

\* the status every failure exit of connect() stores (lines 611, 619, 626,
\* 634, 642, 656, 667, 696)
FailureStatusMut == "DISCONNECTED"

FailureStatus == "CONNECTION_ERROR"

\* Device::connectAsync, line 708
ConnectAsyncCall(t, port) ==
    /\ pc[t] = "idle"
    /\ pc' = [pc EXCEPT ![t] = "a_check"]
    /\ op' = [op EXCEPT ![t] = "connectAsync"]
    /\ loc' = [loc EXCEPT ![t] = [DefaultLoc EXCEPT !.port = port]]
    /\ UNCHANGED <<devVars, mutex, monVars, portVars, devicePresent, hist>>
    /\ UNCHANGED opVars

\* lines 710-721: a ready future holding true if already connected, else
\* std::async runs connect(port)
ConnectAsyncCheck(t) ==
    /\ pc[t] = "a_check"
    /\ IF connected
       THEN Return(t, TRUE, hist)
       ELSE /\ pc' = [pc EXCEPT ![t] = "c_lock"]
            /\ op' = [op EXCEPT ![t] = "connect"]
            /\ hist' = [hist EXCEPT !.quiesced = FALSE]
            /\ UNCHANGED loc
    /\ UNCHANGED <<devVars, mutex, monVars, portVars, devicePresent>>
    /\ UNCHANGED opVars

\* lines 605-615: early return, port resolution, status CONNECTING
ConnectCheck(t) ==
    /\ pc[t] = "c_check"
    /\ IF AlreadyConnected
       THEN /\ mutex' = "free"
            /\ Return(t, TRUE, hist)
            /\ UNCHANGED <<devVars, monVars, portVars, devicePresent>>
       ELSE LET targetPort == IF loc[t].port = NoPort THEN findFirstDevice ELSE loc[t].port IN
            IF targetPort = NoPort
            THEN /\ atomicStatus' = FailureStatus
                 /\ mutex' = "free"
                 /\ Return(t, FALSE, hist)
                 /\ UNCHANGED <<connected, deviceInfo, currentButtonMask, lockStateCache, lockStateCacheValid,
                                buttonMonitoringEnabled, monVars, portVars, devicePresent>>
            ELSE /\ atomicStatus' = "CONNECTING"
                 /\ loc' = [loc EXCEPT ![t].port = targetPort]
                 /\ Goto(t, "c_open")
                 /\ UNCHANGED <<connected, deviceInfo, currentButtonMask, lockStateCache, lockStateCacheValid,
                                buttonMonitoringEnabled, mutex, monVars, portVars,
                                devicePresent, op, hist>>
    /\ UNCHANGED opVars

\* lines 618-621: open at INITIAL_BAUD_RATE; on failure CONNECTION_ERROR
ConnectOpen(t) ==
    /\ pc[t] = "c_open"
    /\ \E ok \in BOOLEAN :
         /\ ok => devicePresent
         /\ PortOpen(loc[t].port, INITIAL_BAUD_RATE, ok)
         /\ IF ok
            THEN /\ Goto(t, "c_baud_write")
                 /\ UNCHANGED <<devVars, mutex, op, loc, hist>>
            ELSE /\ atomicStatus' = FailureStatus
                 /\ mutex' = "free"
                 /\ Return(t, FALSE, hist)
                 /\ UNCHANGED <<connected, deviceInfo, currentButtonMask,
                                lockStateCache, lockStateCacheValid, buttonMonitoringEnabled>>
    /\ UNCHANGED <<monVars, devicePresent>>
    /\ UNCHANGED opVars

\* performBaudRateChange lines 263-286 inside connect: isOpen, write the
\* frame, flush
ConnectBaudWrite(t) ==
    /\ pc[t] = "c_baud_write"
    /\ \E io \in BOOLEAN :
         IF WriteSucceeds /\ io
         THEN /\ Goto(t, "c_baud_close")
              /\ loc' = [loc EXCEPT ![t].wrote = Append(@, BaudFrame(HIGH_SPEED_BAUD_RATE))]
              /\ UNCHANGED hist
         ELSE /\ Goto(t, "c_fail")
              /\ UNCHANGED <<loc, hist>>
    /\ UNCHANGED <<devVars, mutex, monVars, portVars, devicePresent, op>>
    /\ UNCHANGED opVars

\* performBaudRateChange lines 289-290: getPortName, close
ConnectBaudClose(t) ==
    /\ pc[t] = "c_baud_close"
    /\ PortClose
    /\ Goto(t, "c_baud_reopen")
    /\ UNCHANGED <<devVars, mutex, monVars, devicePresent, op, loc, hist>>
    /\ UNCHANGED opVars

\* performBaudRateChange lines 292-298: reopen at the new rate
ConnectBaudReopen(t) ==
    /\ pc[t] = "c_baud_reopen"
    /\ \E ok \in BOOLEAN :
         /\ ok => devicePresent
         /\ PortOpen(m_portName, HIGH_SPEED_BAUD_RATE, ok)
         /\ Goto(t, IF ok THEN "c_validate" ELSE "c_fail")
    /\ UNCHANGED <<devVars, mutex, monVars, devicePresent, op, loc, hist>>
    /\ UNCHANGED opVars

\* line 632: isOpen() && isActuallyConnected()
ConnectValidate(t) ==
    /\ pc[t] = "c_validate"
    /\ Goto(t, IF m_isOpen /\ isActuallyConnected THEN "c_init" ELSE "c_fail")
    /\ UNCHANGED <<devVars, mutex, monVars, portVars, devicePresent, op, loc, hist>>
    /\ UNCHANGED opVars

\* initializeDevice lines 301-311: sendCommand("km.buttons(1)")
ConnectInit(t) ==
    /\ pc[t] = "c_init"
    /\ IF WriteSucceeds
       THEN /\ Goto(t, "c_probe")
            /\ loc' = [loc EXCEPT ![t].wrote = Append(@, "km.buttons(1)")]
            /\ UNCHANGED hist
       ELSE /\ Goto(t, "c_fail")
            /\ UNCHANGED <<loc, hist>>
    /\ UNCHANGED <<devVars, mutex, monVars, portVars, devicePresent, op>>
    /\ UNCHANGED opVars

\* lines 650-651: sendTrackedCommand("km.version()", true, 100ms)
ConnectProbe(t) ==
    /\ pc[t] = "c_probe"
    /\ m_commandCounter < MaxCmds
    /\ PortSendTracked("km.version()", TRUE)
    /\ loc' = [loc EXCEPT ![t].future = m_commandCounter + 1,
                           ![t].wrote = IF WriteSucceeds THEN Append(@, "km.version()") ELSE @]
    /\ Goto(t, "c_wait")
    /\ UNCHANGED hist
    /\ UNCHANGED <<devVars, mutex, monVars, devicePresent, op>>
    /\ UNCHANGED opVars

\* lines 654-670: wait_for(150ms), future.get(), catch (...)
ConnectWait(t) ==
    /\ pc[t] = "c_wait"
    /\ LET f == promise[loc[t].future] IN
       \/ /\ f.st = "value"
          /\ Goto(t, "c_publish")
       \/ /\ f.st \in {"TimedOut", "Disconnected"}
          /\ Goto(t, "c_fail")
       \/ /\ f.st = "unset"
          /\ loc[t].future \in DOMAIN m_pendingCommands
          /\ m_pendingCommands[loc[t].future].expired
          /\ Goto(t, "c_fail")
    /\ UNCHANGED <<devVars, mutex, monVars, portVars, devicePresent, op, loc, hist>>
    /\ UNCHANGED opVars

\* the failure exits of lines 625-628, 633-636, 641-644, 655-658, 666-669:
\* close the port, CONNECTION_ERROR, deviceInfo.isConnected = false
ConnectFail(t) ==
    /\ pc[t] = "c_fail"
    /\ PortClose
    /\ atomicStatus' = FailureStatus
    /\ deviceInfo' = [deviceInfo EXCEPT !.isConnected = FALSE]
    /\ mutex' = "free"
    /\ Return(t, FALSE, hist)
    /\ UNCHANGED <<connected, currentButtonMask, lockStateCache, lockStateCacheValid,
                   buttonMonitoringEnabled, monVars, devicePresent>>
    /\ UNCHANGED opVars

\* lines 673-681: publish DeviceInfo, status CONNECTED, button monitoring
ConnectPublish(t) ==
    /\ pc[t] = "c_publish"
    /\ deviceInfo' = [port |-> loc[t].port, isConnected |-> TRUE]
    /\ atomicStatus' = "CONNECTED"
    /\ buttonMonitoringEnabled' = TRUE
    /\ Goto(t, "c_live")
    /\ UNCHANGED <<connected, currentButtonMask, lockStateCache, lockStateCacheValid, mutex, monVars,
                   portVars, devicePresent, op, loc, hist>>
    /\ UNCHANGED opVars

\* lines 684-685: release fence, connected.store(true)
ConnectLive(t) ==
    /\ pc[t] = "c_live"
    /\ connected' = TRUE
    /\ hist' = [hist EXCEPT !.owedTrue = @ + 1]
    /\ Goto(t, "c_thread")
    /\ UNCHANGED <<atomicStatus, deviceInfo, currentButtonMask, lockStateCache, lockStateCacheValid,
                   buttonMonitoringEnabled, mutex, monVars, portVars, devicePresent, op, loc>>
    /\ UNCHANGED opVars

\* line 690: the std::jthread constructor starts the new monitor, or
\* throws std::system_error
ConnectThread(t) ==
    /\ pc[t] = "c_thread"
    /\ \E m \in Monitors : mpc[m] = "unborn"
    /\ \E ok \in BOOLEAN :
         IF ok
         THEN /\ mpc' = [mpc EXCEPT ![NextMonitor] = "m_stop"]
              /\ loc' = [loc EXCEPT ![t].newMon = NextMonitor]
              /\ Goto(t, "c_swap")
         ELSE /\ Goto(t, "c_thread_fail")
              /\ UNCHANGED <<mpc, loc>>
    /\ UNCHANGED <<devVars, mutex, monitoringThread, stopRequested, portVars,
                   devicePresent, op, hist>>
    /\ UNCHANGED opVars

\* line 690: jthread move assignment: a joinable old thread is asked to stop
ConnectSwap(t) ==
    /\ pc[t] = "c_swap"
    /\ IF monitoringThread # 0
       THEN /\ stopRequested' = [stopRequested EXCEPT ![monitoringThread] = TRUE]
            /\ Goto(t, "c_join")
            /\ UNCHANGED monitoringThread
       ELSE /\ monitoringThread' = loc[t].newMon
            /\ Goto(t, "c_unlock")
            /\ UNCHANGED stopRequested
    /\ UNCHANGED <<devVars, mutex, mpc, portVars, devicePresent, op, loc, hist>>
    /\ UNCHANGED opVars

\* line 690: ... and joined before the handle takes the new thread
ConnectJoin(t) ==
    /\ pc[t] = "c_join"
    /\ mpc[monitoringThread] = "done"
    /\ mpc' = [mpc EXCEPT ![monitoringThread] = "unborn"]
    /\ stopRequested' = [stopRequested EXCEPT ![monitoringThread] = FALSE]
    /\ monitoringThread' = loc[t].newMon
    /\ Goto(t, "c_unlock")
    /\ UNCHANGED <<devVars, mutex, portVars, devicePresent, op, loc, hist>>
    /\ UNCHANGED opVars

\* lines 693-700: thread creation failed
ConnectThreadFail(t) ==
    /\ pc[t] = "c_thread_fail"
    /\ connected' = FALSE
    /\ atomicStatus' = FailureStatus
    /\ deviceInfo' = [deviceInfo EXCEPT !.isConnected = FALSE]
    /\ PortClose
    /\ mutex' = "free"
    /\ Return(t, FALSE, [hist EXCEPT !.owedTrue = @ - 1])
    /\ UNCHANGED <<currentButtonMask, lockStateCache, lockStateCacheValid, buttonMonitoringEnabled,
                   monVars, devicePresent>>
    /\ UNCHANGED opVars

\* line 702: lock.unlock()
ConnectUnlock(t) ==
    /\ pc[t] = "c_unlock"
    /\ mutex' = "free"
    /\ Goto(t, "c_notify")
    /\ UNCHANGED <<devVars, monVars, portVars, devicePresent, op, loc, hist>>
    /\ UNCHANGED opVars

\* lines 703-705: notifyConnectionChange(true); return true
ConnectNotify(t) ==
    /\ pc[t] = "c_notify"
    /\ NotifyAndReturn(t, TRUE, [hist EXCEPT !.owedTrue = @ - 1])
    /\ UNCHANGED <<devVars, mutex, monVars, portVars, devicePresent>>
    /\ UNCHANGED opVars

(***************************************************************************)
(* Device::disconnect  (makcu.cpp 732-764), also reached from setBaudRate  *)
(***************************************************************************)
\* application thread t calls disconnect()
DisconnectCall(t) ==
    /\ pc[t] = "idle"
    /\ pc' = [pc EXCEPT ![t] = "d_lock"]
    /\ op' = [op EXCEPT ![t] = "disconnect"]
    /\ UNCHANGED <<devVars, mutex, monVars, portVars, devicePresent, loc, hist>>
    /\ UNCHANGED opVars

\* line 735: std::unique_lock lock(m_impl->mutex)
DisconnectLock(t) ==
    /\ pc[t] = "d_lock"
    /\ mutex = "free"
    /\ mutex' = t
    /\ Goto(t, "d_cleanup")
    /\ UNCHANGED <<devVars, monVars, portVars, devicePresent, op, loc, hist>>
    /\ UNCHANGED opVars

\* cleanupMonitoringThread lines 223-236: request_stop and notify_all when
\* joinable (an application thread is never the monitor thread itself)
DisconnectCleanup(t) ==
    /\ pc[t] = "d_cleanup"
    /\ IF monitoringThread = 0
       THEN /\ Goto(t, "d_cas")
            /\ UNCHANGED stopRequested
       ELSE /\ stopRequested' = [stopRequested EXCEPT ![monitoringThread] = TRUE]
            /\ Goto(t, "d_join")
    /\ UNCHANGED <<devVars, mutex, monitoringThread, mpc, portVars, devicePresent,
                   op, loc, hist>>
    /\ UNCHANGED opVars

\* cleanupMonitoringThread line 238: monitoringThread.join()
DisconnectJoin(t) ==
    /\ pc[t] = "d_join"
    /\ mpc[monitoringThread] = "done"
    /\ mpc' = [mpc EXCEPT ![monitoringThread] = "unborn"]
    /\ stopRequested' = [stopRequested EXCEPT ![monitoringThread] = FALSE]
    /\ monitoringThread' = 0
    /\ Goto(t, "d_cas")
    /\ UNCHANGED <<devVars, mutex, portVars, devicePresent, op, loc, hist>>
    /\ UNCHANGED opVars

\* connected.compare_exchange_strong(expected = true, false) succeeds iff the
\* flag holds the expected value
CasWonMut(cur) == TRUE

CasWon(cur) == cur = TRUE

\* lines 741-743: shouldNotify = connected.compare_exchange_strong(true, false)
DisconnectCas(t) ==
    /\ pc[t] = "d_cas"
    /\ loc' = [loc EXCEPT ![t].shouldNotify = CasWon(connected)]
    /\ connected' = FALSE
    /\ hist' = IF connected THEN [hist EXCEPT !.owedFalse = @ + 1] ELSE hist
    /\ Goto(t, "d_status")
    /\ UNCHANGED <<atomicStatus, deviceInfo, currentButtonMask, lockStateCache, lockStateCacheValid,
                   buttonMonitoringEnabled, mutex, monVars, portVars, devicePresent, op>>
    /\ UNCHANGED opVars

\* line 747: atomicStatus.store(DISCONNECTED)
DisconnectStatus(t) ==
    /\ pc[t] = "d_status"
    /\ atomicStatus' = "DISCONNECTED"
    /\ Goto(t, "d_close")
    /\ UNCHANGED <<connected, deviceInfo, currentButtonMask, lockStateCache, lockStateCacheValid,
                   buttonMonitoringEnabled, mutex, monVars, portVars, devicePresent,
                   op, loc, hist>>
    /\ UNCHANGED opVars

\* lines 750-752: close the serial port if it is still open
DisconnectClose(t) ==
    /\ pc[t] = "d_close"
    /\ IF m_isOpen THEN PortClose ELSE UNCHANGED portVars
    /\ Goto(t, "d_clear")
    /\ UNCHANGED <<devVars, mutex, monVars, devicePresent, op, loc, hist>>
    /\ UNCHANGED opVars

\* lines 755-759: clear the remaining state, release the lock
DisconnectClear(t) ==
    /\ pc[t] = "d_clear"
    /\ deviceInfo' = [deviceInfo EXCEPT !.isConnected = FALSE]
    /\ currentButtonMask' = 0
    /\ lockStateCacheValid' = FALSE
    /\ buttonMonitoringEnabled' = FALSE
    /\ mutex' = "free"
    /\ Goto(t, "d_notify")
    /\ UNCHANGED <<connected, atomicStatus, lockStateCache, monVars, portVars, devicePresent, op, loc, hist>>
    /\ UNCHANGED opVars

\* lines 761-764: notifyConnectionChange(false) if this call made the
\* transition; disconnect() returns (setBaudRate then returns false)
DisconnectNotify(t) ==
    /\ pc[t] = "d_notify"
    /\ IF loc[t].shouldNotify
       THEN NotifyAndReturn(t, FALSE, [hist EXCEPT !.owedFalse = @ - 1, !.quiesced = TRUE])
       ELSE Return(t, FALSE, [hist EXCEPT !.quiesced = TRUE])
    /\ UNCHANGED <<devVars, mutex, monVars, portVars, devicePresent>>
    /\ UNCHANGED opVars

(***************************************************************************)
(* Device::Impl::connectionMonitoringLoop  (makcu.cpp 367-414)             *)
(***************************************************************************)
MGoto(m, label) == mpc' = [mpc EXCEPT ![m] = label]

\* line 372: while (!stopToken.stop_requested())
MonitorStopCheck(m) ==
    /\ mpc[m] = "m_stop"
    /\ MGoto(m, IF stopRequested[m] THEN "done" ELSE "m_load")
    /\ UNCHANGED <<devVars, mutex, monitoringThread, stopRequested, portVars,
                   devicePresent, thrVars, hist>>
    /\ UNCHANGED opVars

\* lines 374-377: leave the loop when connected is already false
MonitorLoad(m) ==
    /\ mpc[m] = "m_load"
    /\ MGoto(m, IF connected THEN "m_probe" ELSE "done")
    /\ UNCHANGED <<devVars, mutex, monitoringThread, stopRequested, portVars,
                   devicePresent, thrVars, hist>>
    /\ UNCHANGED opVars

\* lines 381-383: actuallyConnected = serialPort->isActuallyConnected()
MonitorProbe(m) ==
    /\ mpc[m] = "m_probe"
    /\ MGoto(m, IF isActuallyConnected THEN "m_wait" ELSE "m_cas")
    /\ UNCHANGED <<devVars, mutex, monitoringThread, stopRequested, portVars,
                   devicePresent, thrVars, hist>>
    /\ UNCHANGED opVars

\* lines 386-387 and 400: compare_exchange_strong(true -> false); the loser
\* leaves the loop
MonitorCas(m) ==
    /\ mpc[m] = "m_cas"
    /\ connected' = FALSE
    /\ hist' = IF connected THEN [hist EXCEPT !.owedFalse = @ + 1] ELSE hist
    /\ MGoto(m, IF CasWon(connected) THEN "m_status" ELSE "done")
    /\ UNCHANGED <<atomicStatus, deviceInfo, currentButtonMask, lockStateCache, lockStateCacheValid,
                   buttonMonitoringEnabled, mutex, monitoringThread, stopRequested,
                   portVars, devicePresent, thrVars>>
    /\ UNCHANGED opVars

\* line 390: atomicStatus.store(DISCONNECTED)
MonitorStatus(m) ==
    /\ mpc[m] = "m_status"
    /\ atomicStatus' = "DISCONNECTED"
    /\ MGoto(m, "m_clear")
    /\ UNCHANGED <<connected, deviceInfo, currentButtonMask, lockStateCache, lockStateCacheValid,
                   buttonMonitoringEnabled, mutex, monitoringThread, stopRequested,
                   portVars, devicePresent, thrVars, hist>>
    /\ UNCHANGED opVars

\* lines 391-393: button mask, lock cache validity, button monitoring flag
MonitorClear(m) ==
    /\ mpc[m] = "m_clear"
    /\ currentButtonMask' = 0
    /\ lockStateCacheValid' = FALSE
    /\ buttonMonitoringEnabled' = FALSE
    /\ MGoto(m, "m_notify")
    /\ UNCHANGED <<connected, atomicStatus, deviceInfo, lockStateCache, mutex, monitoringThread,
                   stopRequested, portVars, devicePresent, thrVars, hist>>
    /\ UNCHANGED opVars

\* lines 396-400: notifyConnectionChange(false), then break
MonitorNotify(m) ==
    /\ mpc[m] = "m_notify"
    /\ hist' = [hist EXCEPT !.owedFalse = @ - 1]
    /\ MGoto(m, IF DisconnectsOn(connectionCallback, FALSE) THEN "m_d_lock"
                ELSE AfterCallback(connectionCallback, "m_cb_lock", "aborted", "done"))
    /\ UNCHANGED <<devVars, mutex, monitoringThread, stopRequested, portVars,
                   devicePresent, thrVars>>
    /\ UNCHANGED opVars

\* the callable, run by the monitor thread, is in getDeviceInfo(), line
\* 776: std::lock_guard lock(m_impl->mutex)
MonitorCallbackLock(m) ==
    /\ mpc[m] = "m_cb_lock"
    /\ mutex = "free"
    /\ mutex' = "monitor"
    /\ MGoto(m, "m_cb_unlock")
    /\ UNCHANGED <<devVars, monitoringThread, stopRequested, portVars,
                   devicePresent, thrVars, opVars, hist>>

\* lines 777-780, then the callable returns and the loop breaks (line 400)
MonitorCallbackUnlock(m) ==
    /\ mpc[m] = "m_cb_unlock"
    /\ mutex' = "free"
    /\ MGoto(m, "done")
    /\ UNCHANGED <<devVars, monitoringThread, stopRequested, portVars,
                   devicePresent, thrVars, opVars, hist>>

\* the callable, run by the monitor thread m, calls disconnect(): line 735,
\* std::unique_lock lock(m_impl->mutex)
MonitorDisconnectLock(m) ==
    /\ mpc[m] = "m_d_lock"
    /\ mutex = "free"
    /\ mutex' = "monitor"
    /\ MGoto(m, "m_d_cleanup")
    /\ UNCHANGED <<devVars, monitoringThread, stopRequested, portVars,
                   devicePresent, thrVars, opVars, hist>>

\* cleanupMonitoringThread lines 223-238 on the monitor thread: nothing to
\* do when the handle is not joinable; else request_stop, notify_all, and
\* detach() when the handle is this very thread (lines 231-235), join()
\* when it is another one (line 238)
MonitorDisconnectCleanup(m) ==
    /\ mpc[m] = "m_d_cleanup"
    /\ IF monitoringThread = 0
       THEN /\ MGoto(m, "m_d_cas")
            /\ UNCHANGED <<monitoringThread, stopRequested>>
       ELSE /\ stopRequested' = [stopRequested EXCEPT ![monitoringThread] = TRUE]
            /\ IF monitoringThread = m
               THEN /\ monitoringThread' = 0
                    /\ MGoto(m, "m_d_cas")
               ELSE /\ MGoto(m, "m_d_join")
                    /\ UNCHANGED monitoringThread
    /\ UNCHANGED <<devVars, mutex, portVars, devicePresent, thrVars, opVars, hist>>

\* lines 741-743 on the monitor thread: the compare-exchange; when it wins
\* the callable is invoked once more after the lock is released
MonitorDisconnectCas(m) ==
    /\ mpc[m] = "m_d_cas"
    /\ MGoto(m, IF CasWon(connected) THEN "m_d_won" ELSE "m_d_status")
    /\ connected' = FALSE
    /\ hist' = IF connected THEN [hist EXCEPT !.owedFalse = @ + 1] ELSE hist
    /\ UNCHANGED <<atomicStatus, deviceInfo, currentButtonMask, lockStateCache, lockStateCacheValid,
                   buttonMonitoringEnabled, mutex, monitoringThread, stopRequested, portVars,
                   devicePresent, thrVars, opVars>>

\* line 747 on the monitor thread
MonitorDisconnectStatus(m) ==
    /\ mpc[m] = "m_d_status"
    /\ atomicStatus' = "DISCONNECTED"
    /\ MGoto(m, "m_d_close")
    /\ UNCHANGED <<connected, deviceInfo, currentButtonMask, lockStateCache, lockStateCacheValid,
                   buttonMonitoringEnabled, mutex, monitoringThread, stopRequested, portVars,
                   devicePresent, thrVars, opVars, hist>>

\* lines 750-752 on the monitor thread
MonitorDisconnectClose(m) ==
    /\ mpc[m] = "m_d_close"
    /\ IF m_isOpen THEN PortClose ELSE UNCHANGED portVars
    /\ MGoto(m, "m_d_clear")
    /\ UNCHANGED <<devVars, mutex, monitoringThread, stopRequested, devicePresent,
                   thrVars, opVars, hist>>

\* lines 755-759 on the monitor thread: clear the remaining state, release
\* the lock; disconnect() returns into the callable
MonitorDisconnectClear(m) ==
    /\ mpc[m] = "m_d_clear"
    /\ deviceInfo' = [deviceInfo EXCEPT !.isConnected = FALSE]
    /\ currentButtonMask' = 0
    /\ lockStateCacheValid' = FALSE
    /\ buttonMonitoringEnabled' = FALSE
    /\ mutex' = "free"
    /\ MGoto(m, "m_d_ret")
    /\ UNCHANGED <<connected, atomicStatus, lockStateCache, monitoringThread, stopRequested,
                   portVars, devicePresent, thrVars, opVars, hist>>

\* the callable returns, notifyConnectionChange returns and the loop
\* breaks (line 400): the thread ends
MonitorCallbackReturn(m) ==
    /\ mpc[m] = "m_d_ret"
    /\ MGoto(m, "done")
    /\ UNCHANGED <<devVars, mutex, monitoringThread, stopRequested, portVars,
                   devicePresent, thrVars, opVars, hist>>

\* lines 404-412: wait_for on the condition variable: woken by a stop
\* request, or the poll interval elapses
MonitorWait(m) ==
    /\ mpc[m] = "m_wait"
    /\ MGoto(m, IF stopRequested[m] THEN "done" ELSE "m_stop")
    /\ UNCHANGED <<devVars, mutex, monitoringThread, stopRequested, portVars,
                   devicePresent, thrVars, hist>>
    /\ UNCHANGED opVars

(***************************************************************************)
(* Device::setBaudRate  (makcu.cpp 1250-1298)                              *)
(***************************************************************************)
\* lines 1256-1260: clamp to [115200, 4000000]
ClampBaudMut(r) == IF r < 115200 THEN 115200 ELSE r
ClampBaud(r) == IF r < 115200 THEN 115200 ELSE IF r > 4000000 THEN 4000000 ELSE r

\* the rates the application asks for
BaudInputs == {115200, 2000000}
\* the response texts of the device
Texts == {"km.MAKCU", "other"}

\* application thread t calls setBaudRate(rate, validate)
BaudCall(t, rate, validate) ==
    /\ pc[t] = "idle"
    /\ pc' = [pc EXCEPT ![t] = "b_check"]
    /\ op' = [op EXCEPT ![t] = "setBaudRate"]
    /\ loc' = [loc EXCEPT ![t] = [DefaultLoc EXCEPT !.rate = rate, !.baud = rate,
                                                !.validate = validate]]
    /\ UNCHANGED <<devVars, mutex, monVars, portVars, devicePresent, hist>>
    /\ UNCHANGED opVars

\* lines 1251-1260: require connected, clamp the rate
BaudCheck(t) ==
    /\ pc[t] = "b_check"
    /\ IF connected
       THEN /\ loc' = [loc EXCEPT ![t].baud = ClampBaud(@)]
            /\ Goto(t, "b_write")
            /\ UNCHANGED <<op, hist>>
       ELSE Return(t, FALSE, hist)
    /\ UNCHANGED <<devVars, mutex, monVars, portVars, devicePresent>>
    /\ UNCHANGED opVars

\* performBaudRateChange lines 263-286 (first handshake of line 1263 or the
\* recovery handshake of lines 1280/1289): isOpen, write the frame, flush;
\* a failed handshake leads to disconnect()
BaudWrite(t) ==
    /\ pc[t] = "b_write"
    /\ \E io \in BOOLEAN :
         IF WriteSucceeds /\ io
         THEN /\ Goto(t, "b_close")
              /\ loc' = [loc EXCEPT ![t].wrote = Append(@, BaudFrame(loc[t].baud))]
              /\ UNCHANGED hist
         ELSE /\ Goto(t, "d_lock")
              /\ UNCHANGED <<loc, hist>>
    /\ UNCHANGED <<devVars, mutex, monVars, portVars, devicePresent, op>>
    /\ UNCHANGED opVars

\* performBaudRateChange lines 289-290: getPortName, close
BaudClose(t) ==
    /\ pc[t] = "b_close"
    /\ PortClose
    /\ Goto(t, "b_reopen")
    /\ UNCHANGED <<devVars, mutex, monVars, devicePresent, op, loc, hist>>
    /\ UNCHANGED opVars

\* performBaudRateChange lines 292-298 and the use of its result at lines
\* 1263-1297: reopen at the new rate
BaudReopen(t) ==
    /\ pc[t] = "b_reopen"
    /\ \E ok \in BOOLEAN :
         /\ ok => devicePresent
         /\ PortOpen(m_portName, loc[t].baud, ok)
         /\ IF ~ok
            THEN /\ Goto(t, "d_lock")
                 /\ UNCHANGED <<op, loc, hist>>
            ELSE IF loc[t].recover
            THEN Return(t, FALSE, hist)
            ELSE IF loc[t].validate
            THEN /\ Goto(t, "b_probe")
                 /\ UNCHANGED <<op, loc, hist>>
            ELSE Return(t, TRUE, hist)
    /\ UNCHANGED <<devVars, mutex, monVars, devicePresent>>
    /\ UNCHANGED opVars

\* line 1271: sendTrackedCommand("km.version()", true, 1000ms)
BaudProbe(t) ==
    /\ pc[t] = "b_probe"
    /\ m_commandCounter < MaxCmds
    /\ PortSendTracked("km.version()", TRUE)
    /\ loc' = [loc EXCEPT ![t].future = m_commandCounter + 1,
                           ![t].wrote = IF WriteSucceeds
                                        THEN Append(@, "km.version()") ELSE @]
    /\ Goto(t, "b_wait")
    /\ UNCHANGED hist
    /\ UNCHANGED <<devVars, mutex, monVars, devicePresent, op>>
    /\ UNCHANGED opVars

\* what the device puts before and after a word of its response
Affixes == {"", "v", " 3.2"}

\* response.find(needle) != std::string::npos (line 1275)
ContainsMut(text, needle) == text = needle
Contains(text, needle) ==
    \E prefix \in Affixes, suffix \in Affixes : text = prefix \o needle \o suffix

\* lines 1272-1294: future.get(); a response containing km.MAKCU returns
\* true, anything else starts the recovery to 115200 unless already there
BaudWait(t) ==
    /\ pc[t] = "b_wait"
    /\ LET f == promise[loc[t].future] IN
       /\ f.st # "unset"
       /\ IF f.st = "value" /\ Contains(f.text, "km.MAKCU")
          THEN Return(t, TRUE, hist)
          ELSE IF loc[t].baud # 115200
          THEN /\ loc' = [loc EXCEPT ![t].baud = 115200, ![t].recover = TRUE]
               /\ Goto(t, "b_write")
               /\ UNCHANGED <<op, hist>>
          ELSE /\ Goto(t, "d_lock")
               /\ UNCHANGED <<op, loc, hist>>
    /\ UNCHANGED <<devVars, mutex, monVars, portVars, devicePresent>>
    /\ UNCHANGED opVars

(***************************************************************************)
(* A fire-and-forget typed operation: Device::mouseDown (makcu.cpp         *)
(* 832-839) through Impl::executeCommand (417-432)                         *)
(***************************************************************************)
CommandCall(t) ==
    /\ pc[t] = "idle"
    /\ pc' = [pc EXCEPT ![t] = "x_check"]
    /\ op' = [op EXCEPT ![t] = "mouseDown"]
    /\ UNCHANGED <<devVars, mutex, monVars, portVars, devicePresent, loc, hist>>
    /\ UNCHANGED opVars

\* line 833: if (!m_impl->connected.load()) return false
CommandCheck(t) ==
    /\ pc[t] = "x_check"
    /\ IF connected
       THEN /\ Goto(t, "x_exec")
            /\ UNCHANGED <<op, loc, hist>>
       ELSE Return(t, FALSE, hist)
    /\ UNCHANGED <<devVars, mutex, monVars, portVars, devicePresent>>
    /\ UNCHANGED opVars

\* executeCommand line 418: if (!connected.load(acquire)) return false
CommandExec(t) ==
    /\ pc[t] = "x_exec"
    /\ IF connected
       THEN /\ Goto(t, "x_send")
            /\ UNCHANGED <<op, loc, hist>>
       ELSE Return(t, FALSE, hist)
    /\ UNCHANGED <<devVars, mutex, monVars, portVars, devicePresent>>
    /\ UNCHANGED opVars

\* executeCommand line 424: serialPort->sendCommand(command)
CommandSend(t) ==
    /\ pc[t] = "x_send"
    /\ pc' = [pc EXCEPT ![t] = "ret"]
    /\ loc' = [loc EXCEPT ![t].res = WriteSucceeds,
                           ![t].wrote = IF WriteSucceeds
                                        THEN Append(@, getPressCommand(loc[t].button))
                                        ELSE @]
    /\ UNCHANGED <<op, hist>>
    /\ UNCHANGED <<devVars, mutex, monVars, portVars, devicePresent>>
    /\ UNCHANGED opVars

(***************************************************************************)
(* Device::lockMouseX .. lockMouseSide2 (makcu.cpp 973-1076) with          *)
(* Impl::updateLockStateCache (546-557)                                    *)
(***************************************************************************)
\* lock targets the application locks in the lifecycle model (X and Y)
LifeTargets == {0, 1}

\* lockBit, lines 541-543
lockBitMut(target) == 1
lockBit(target) == 2 ^ target

LockCall(t, target, lock) ==
    /\ pc[t] = "idle"
    /\ pc' = [pc EXCEPT ![t] = "l_check"]
    /\ op' = [op EXCEPT ![t] = "lockMouse"]
    /\ loc' = [loc EXCEPT ![t] = [DefaultLoc EXCEPT !.target = target, !.lock = lock]]
    /\ UNCHANGED <<devVars, mutex, monVars, portVars, devicePresent, hist>>
    /\ UNCHANGED opVars

\* line 974 and executeCommand line 418: both connected checks
LockCheck(t) ==
    /\ pc[t] \in {"l_check", "l_exec"}
    /\ IF connected
       THEN /\ Goto(t, IF pc[t] = "l_check" THEN "l_exec" ELSE "l_send")
            /\ UNCHANGED <<op, loc, hist>>
       ELSE Return(t, FALSE, hist)
    /\ UNCHANGED <<devVars, mutex, monVars, portVars, devicePresent>>
    /\ UNCHANGED opVars

\* executeCommand line 424 and lines 981-985: send; update the cache only
\* on success
LockSend(t) ==
    /\ pc[t] = "l_send"
    /\ IF WriteSucceeds
       THEN /\ Goto(t, "l_load")
            /\ loc' = [loc EXCEPT ![t].wrote =
                          Append(@, lockCommand(loc[t].target, loc[t].lock))]
            /\ UNCHANGED <<op, hist>>
       ELSE Return(t, FALSE, hist)
    /\ UNCHANGED <<devVars, mutex, monVars, portVars, devicePresent>>
    /\ UNCHANGED opVars

\* updateLockStateCache line 547: cache = lockStateCache.load()
LockLoad(t) ==
    /\ pc[t] = "l_load"
    /\ loc' = [loc EXCEPT ![t].cache = lockStateCache]
    /\ Goto(t, "l_store")
    /\ UNCHANGED <<devVars, mutex, monVars, portVars, devicePresent, op, hist>>
    /\ UNCHANGED opVars

\* updateLockStateCache lines 548-555: set or clear the bit, store
LockStore(t) ==
    /\ pc[t] = "l_store"
    /\ lockStateCache' = IF loc[t].lock
                         THEN BitOr(loc[t].cache, lockBit(loc[t].target))
                         ELSE BitAndNot(loc[t].cache, lockBit(loc[t].target))
    /\ Goto(t, "l_valid")
    /\ UNCHANGED <<connected, atomicStatus, deviceInfo, currentButtonMask,
                   lockStateCacheValid, buttonMonitoringEnabled, mutex, monVars,
                   portVars, devicePresent, op, loc, hist>>
    /\ UNCHANGED opVars

\* updateLockStateCache line 556, then return result (line 985)
LockValid(t) ==
    /\ pc[t] = "l_valid"
    /\ lockStateCacheValid' = TRUE
    /\ Return(t, TRUE, hist)
    /\ UNCHANGED <<connected, atomicStatus, deviceInfo, currentButtonMask,
                   lockStateCache, buttonMonitoringEnabled, mutex, monVars,
                   portVars, devicePresent>>
    /\ UNCHANGED opVars

\* getLockStateFromCache, lines 559-565
getLockStateFromCacheMut(target) == (lockStateCache \div lockBit(target)) % 2 = 1
getLockStateFromCache(target) ==
    IF ~lockStateCacheValid THEN FALSE
    ELSE (lockStateCache \div lockBit(target)) % 2 = 1

\* Device::getAllLockStates, lines 1107-1117: the seven queries by target
getAllLockStates == [target \in LockTargets |-> getLockStateFromCache(target)]

(***************************************************************************)
(* Device::Impl::handleButtonEvent  (makcu.cpp 313-346), called by the     *)
(* listener of the open port                                               *)
(***************************************************************************)
FetchOrMut(mask, bit) == bit

\* line 318: currentButtonMask.fetch_or(bit)
FetchOr(mask, bit) == BitOr(mask, bit)

\* line 321: currentButtonMask.fetch_and(~bit)
FetchAnd(mask, bit) == BitAndNot(mask, bit)

\* lines 316-322: the mask after the event
MaskAfter(mask, button, pressed) ==
    IF pressed THEN FetchOr(mask, ButtonBit(button)) ELSE FetchAnd(mask, ButtonBit(button))

\* buttons whose events reach the handler while the lifecycle runs
LifeButtons == {1}

handleButtonEvent(button, pressed) ==
    /\ m_isOpen /\ devicePresent
    /\ currentButtonMask' = MaskAfter(currentButtonMask, button, pressed)
    /\ UNCHANGED <<connected, atomicStatus, deviceInfo, lockStateCache, lockStateCacheValid,
                   buttonMonitoringEnabled, mutex, monVars, portVars, devicePresent,
                   thrVars, hist>>
    /\ UNCHANGED opVars

(***************************************************************************)
(* The device, the link and the port's listener.                           *)
(***************************************************************************)
\* the USB device is removed
Unplug ==
    /\ devicePresent
    /\ devicePresent' = FALSE
    /\ devInbox' = << >>
    /\ UNCHANGED <<devVars, mutex, monVars, m_isOpen, m_portName, m_baudRate,
                   m_commandCounter, m_pendingCommands, m_pendingCommandOrder, promise,
                   thrVars, hist>>
    /\ UNCHANGED opVars

\* the USB device is attached again
Plug ==
    /\ ~devicePresent
    /\ devicePresent' = TRUE
    /\ UNCHANGED <<devVars, mutex, monVars, portVars, thrVars, hist>>
    /\ UNCHANGED opVars

\* the device answers the oldest command it received; the listener hands
\* the line to processResponse, a closed port loses it
DeviceRespond(text) ==
    /\ devicePresent
    /\ devInbox # << >>
    /\ devInbox' = Tail(devInbox)
    /\ IF m_isOpen
       THEN PortProcessResponse(Value(Head(devInbox), text))
       ELSE UNCHANGED <<m_isOpen, m_portName, m_baudRate, m_commandCounter,
                        m_pendingCommands, m_pendingCommandOrder, promise>>
    /\ UNCHANGED <<devVars, mutex, monVars, devicePresent, thrVars, hist>>
    /\ UNCHANGED opVars

\* the deadline (timestamp + timeout) of a pending command elapses
Expire(id) ==
    /\ id \in DOMAIN m_pendingCommands
    /\ ~m_pendingCommands[id].expired
    /\ m_pendingCommands' = [m_pendingCommands EXCEPT ![id].expired = TRUE]
    /\ UNCHANGED <<devVars, mutex, monVars, m_isOpen, m_portName, m_baudRate,
                   m_commandCounter, m_pendingCommandOrder, promise, devInbox,
                   devicePresent, thrVars, hist>>
    /\ UNCHANGED opVars

\* the listener's periodic cleanupTimedOutCommands
Sweep ==
    /\ m_isOpen
    /\ TimedOutCommands # {}
    /\ PortCleanupTimedOut
    /\ UNCHANGED <<devVars, mutex, monVars, devicePresent, thrVars, hist>>
    /\ UNCHANGED opVars

(***************************************************************************)
(* The lifecycle specification.                                            *)
(***************************************************************************)
\* history: connection callbacks still owed for a transition of the live
\* flag (incremented by the transition, decremented by the callback), and
\* whether a disconnect() has returned with no connect() called since; for
\* the button handler, the state last reported for each button
InitHist == [owedTrue |-> 0, owedFalse |-> 0, quiesced |-> FALSE,
             last |-> [b \in Buttons |-> FALSE]]

\* the state after Device::Device() (Impl::Impl, lines 241-257)
Init ==
    /\ connected = FALSE
    /\ atomicStatus = "DISCONNECTED"
    /\ deviceInfo = [port |-> NoPort, isConnected |-> FALSE]
    /\ currentButtonMask = 0
    /\ lockStateCache = 0
    /\ lockStateCacheValid = FALSE
    /\ buttonMonitoringEnabled = FALSE
    /\ mutex = "free"
    /\ monitoringThread = 0
    /\ stopRequested = [m \in Monitors |-> FALSE]
    /\ mpc = [m \in Monitors |-> "unborn"]
    /\ m_isOpen = FALSE
    /\ m_portName = NoPort
    /\ m_baudRate = 0
    /\ m_commandCounter = 0
    /\ m_pendingCommands = << >>
    /\ m_pendingCommandOrder = << >>
    /\ promise = [i \in CmdIds |-> NoValue]
    /\ devicePresent \in BOOLEAN
    /\ devInbox = << >>
    /\ pc = [t \in Users |-> "idle"]
    /\ op = [t \in Users |-> "none"]
    /\ loc = [t \in Users |-> DefaultLoc]
    /\ m_lifetimeToken = TRUE
    /\ m_commands = << >>
    /\ mouseButtonCallback = "returns"
    /\ connectionCallback = "returns"
    /\ hist = InitHist

ConnectStep(t) ==
    \/ ConnectLock(t)
    \/ ConnectCheck(t)
    \/ ConnectOpen(t)
    \/ ConnectBaudWrite(t)
    \/ ConnectBaudClose(t)
    \/ ConnectBaudReopen(t)
    \/ ConnectValidate(t)
    \/ ConnectInit(t)
    \/ ConnectProbe(t)
    \/ ConnectWait(t)
    \/ ConnectFail(t)
    \/ ConnectPublish(t)
    \/ ConnectLive(t)
    \/ ConnectThread(t)
    \/ ConnectSwap(t)
    \/ ConnectJoin(t)
    \/ ConnectThreadFail(t)
    \/ ConnectUnlock(t)
    \/ ConnectNotify(t)

DisconnectStep(t) ==
    \/ DisconnectLock(t)
    \/ DisconnectCleanup(t)
    \/ DisconnectJoin(t)
    \/ DisconnectCas(t)
    \/ DisconnectStatus(t)
    \/ DisconnectClose(t)
    \/ DisconnectClear(t)
    \/ DisconnectNotify(t)

BaudStep(t) ==
    \/ BaudCheck(t)
    \/ BaudWrite(t)
    \/ BaudClose(t)
    \/ BaudReopen(t)
    \/ BaudProbe(t)
    \/ BaudWait(t)

LockStep(t) ==
    \/ LockCheck(t)
    \/ LockSend(t)
    \/ LockLoad(t)
    \/ LockStore(t)
    \/ LockValid(t)

CommandStep(t) ==
    \/ CommandCheck(t)
    \/ CommandExec(t)
    \/ CommandSend(t)

MonitorStep(m) ==
    \/ MonitorStopCheck(m)
    \/ MonitorLoad(m)
    \/ MonitorProbe(m)
    \/ MonitorCas(m)
    \/ MonitorStatus(m)
    \/ MonitorClear(m)
    \/ MonitorNotify(m)
    \/ MonitorWait(m)

LinkStep ==
    \/ Unplug
    \/ Plug
    \/ \E text \in Texts : DeviceRespond(text)
    \/ \E id \in CmdIds : Expire(id)
    \/ Sweep

EnvStep ==
    \/ LinkStep
    \/ \E button \in LifeButtons, pressed \in BOOLEAN : handleButtonEvent(button, pressed)

\* the thread that owns the connection
Owners == {"u1"}
\* a second thread that only uses an established connection
Workers == {"u2"}

\* an idle thread calls connect() or disconnect()
CallLifecycle(t) ==
    \/ \E port \in {NoPort, DevPort} : ConnectCall(t, port)
    \/ DisconnectCall(t)

\* an idle thread calls setBaudRate() or a fire-and-forget command
CallOperation(t) ==
    \/ \E rate \in BaudInputs, validate \in BOOLEAN : BaudCall(t, rate, validate)
    \/ CommandCall(t)

\* an idle thread calls connectAsync()
CallAsync(t) ==
    \E port \in {NoPort, DevPort} : ConnectAsyncCall(t, port)

\* an idle thread locks or unlocks an axis
CallLock(t) ==
    \E target \in LifeTargets, lock \in BOOLEAN : LockCall(t, target, lock)

ThreadStep(t) ==
    \/ ConnectStep(t)
    \/ DisconnectStep(t)
    \/ BaudStep(t)
    \/ CommandStep(t)
    \/ Leave(t)

\* one application thread that calls every operation, the monitors and
\* the device
Next ==
    \/ \E t \in Owners : CallLifecycle(t)
    \/ \E t \in Owners : CallOperation(t)
    \/ \E t \in Owners : CallLock(t)
    \/ \E t \in Owners : CallAsync(t)
    \/ \E t \in Owners : ConnectAsyncCheck(t)
    \/ \E t \in Owners : ThreadStep(t)
    \/ \E t \in Owners : LockStep(t)
    \/ \E m \in Monitors : MonitorStep(m)
    \/ EnvStep

Spec == Init /\ [][Next]_vars

\* the owner connects and disconnects while a second thread uses the
\* connection
NextRace ==
    \/ \E t \in Owners : CallLifecycle(t)
    \/ \E t \in Workers : CallOperation(t)
    \/ \E t \in Users : ThreadStep(t)
    \/ \E m \in Monitors : MonitorStep(m)
    \/ LinkStep

SpecRace == Init /\ [][NextRace]_vars

(***************************************************************************)
(* The request tracking of one open SerialPort                             *)
(***************************************************************************)
\* SerialPort::open on the port of the device
DispOpen ==
    /\ ~m_isOpen
    /\ PortOpen(DevPort, INITIAL_BAUD_RATE, devicePresent)
    /\ UNCHANGED <<devVars, mutex, monVars, devicePresent, thrVars, hist>>
    /\ UNCHANGED opVars

\* SerialPort::close
DispClose ==
    /\ m_isOpen
    /\ PortClose
    /\ UNCHANGED <<devVars, mutex, monVars, devicePresent, thrVars, hist>>
    /\ UNCHANGED opVars

\* a client calls sendTrackedCommand and keeps the future
Submit(command, expectResponse) ==
    /\ m_commandCounter < MaxCmds
    /\ PortSendTracked(command, expectResponse)
    /\ UNCHANGED <<devVars, mutex, monVars, devicePresent, thrVars, hist>>
    /\ UNCHANGED opVars

InitDisp == Init /\ devicePresent

NextDisp ==
    \/ DispOpen
    \/ DispClose
    \/ \E expectResponse \in BOOLEAN : Submit("km.version()", expectResponse)
    \/ \E text \in Texts : DeviceRespond(text)
    \/ \E id \in CmdIds : Expire(id)
    \/ Sweep

SpecDisp == InitDisp /\ [][NextDisp]_vars

(***************************************************************************)
(* Concurrent invocations of Impl::handleButtonEvent                       *)
(***************************************************************************)
\* line 313: a thread enters handleButtonEvent(button, pressed)
ButtonEventArrive(t, button, pressed) ==
    /\ pc[t] = "idle"
    /\ pc' = [pc EXCEPT ![t] = "h_rmw"]
    /\ op' = [op EXCEPT ![t] = "handleButtonEvent"]
    /\ loc' = [loc EXCEPT ![t] = [DefaultLoc EXCEPT !.button = button, !.pressed = pressed]]
    /\ UNCHANGED <<devVars, mutex, monVars, portVars, devicePresent, hist>>
    /\ UNCHANGED opVars

\* lines 316-322: the atomic read-modify-write of currentButtonMask
ButtonEventApply(t) ==
    /\ pc[t] = "h_rmw"
    /\ currentButtonMask' = MaskAfter(currentButtonMask, loc[t].button, loc[t].pressed)
    /\ hist' = [hist EXCEPT !.last[loc[t].button] = loc[t].pressed]
    /\ Goto(t, "h_cb")
    /\ UNCHANGED <<connected, atomicStatus, deviceInfo, lockStateCache, lockStateCacheValid,
                   buttonMonitoringEnabled, mutex, monVars, portVars, devicePresent,
                   op, loc>>
    /\ UNCHANGED opVars

\* line 325: if (button >= 5) return
NoMouseButtonMut(button) == FALSE
NoMouseButton(button) == button >= 5

\* lines 325-345: nothing for an index of 5 or more or with no callback
\* registered; else the copy of the callback is invoked once with the
\* MouseButton and the state, and the handler returns
ButtonEventCallback(t) ==
    /\ pc[t] = "h_cb"
    /\ IF NoMouseButton(loc[t].button) \/ mouseButtonCallback = nullptr
       THEN Return(t, TRUE, hist)
       ELSE /\ pc' = [pc EXCEPT ![t] = IF Escapes(mouseButtonCallback)
                                       THEN "unwound" ELSE "ret"]
            /\ loc' = [loc EXCEPT ![t].res = TRUE,
                                  ![t].called = Append(@, <<loc[t].button, loc[t].pressed>>)]
            /\ UNCHANGED <<op, hist>>
    /\ UNCHANGED <<devVars, mutex, monVars, portVars, devicePresent>>
    /\ UNCHANGED opVars

\* what a callable handed to the Device does when it is invoked
Callables == {nullptr, "returns", "throws"}

\* Device::setMouseButtonCallback, lines 1300-1303
setMouseButtonCallback(callback) ==
    /\ mouseButtonCallback' = callback
    /\ UNCHANGED <<devVars, mutex, monVars, portVars, devicePresent, thrVars, hist,
                   m_lifetimeToken, m_commands, connectionCallback>>

\* Device::setConnectionCallback, lines 1305-1308
setConnectionCallback(callback) ==
    /\ connectionCallback' = callback
    /\ UNCHANGED <<devVars, mutex, monVars, portVars, devicePresent, thrVars, hist,
                   m_lifetimeToken, m_commands, mouseButtonCallback>>

NextBtn ==
    \/ \E t \in Users, button \in Buttons, pressed \in BOOLEAN :
          ButtonEventArrive(t, button, pressed)
    \/ \E t \in Users : ButtonEventApply(t)
    \/ \E t \in Users : ButtonEventCallback(t)
    \/ \E t \in Users : Leave(t)

SpecBtn == Init /\ [][NextBtn]_vars

(***************************************************************************)
(* Properties of the lifecycle                                             *)
(***************************************************************************)
\* threads that made a true -> false transition of the live flag and have
\* not yet invoked the callback with false
FalseNotifiers ==
    {t \in Users : pc[t] \in {"d_status", "d_close", "d_clear", "d_notify"}
                   /\ loc[t].shouldNotify}
MonitorNotifiers ==
    {m \in Monitors : mpc[m] \in {"m_status", "m_clear", "m_notify"}}
\* threads whose connect() set the live flag and has not yet returned
TrueNotifiers ==
    {t \in Users : pc[t] \in {"c_thread", "c_swap", "c_join", "c_thread_fail",
                              "c_unlock", "c_notify"}}

\* C1: every true -> false transition of the live flag made by a
\* compare-and-swap is followed by exactly one callback(false), invoked by
\* the thread that won the compare-and-swap: the transitions still owed a
\* callback are exactly those of the threads on their way to invoke it, a
\* thread that lost the compare-and-swap invokes nothing, and likewise every
\* false -> true transition of a connect() that succeeds is followed by
\* exactly one callback(true)
C1_CallbackOncePerTransition ==
    /\ hist.owedFalse = Cardinality(FalseNotifiers) + Cardinality(MonitorNotifiers)
    /\ hist.owedTrue = Cardinality(TrueNotifiers)
    /\ \A t \in Users :
         pc[t] = "ret" /\ op[t] = "disconnect" => (loc[t].notified <=> loc[t].shouldNotify)

\* the disconnect race: the application thread is inside disconnect(),
\* waiting for the monitor, and the monitor has won the compare-and-swap
\* and is about to invoke the callback
C1_Witness ==
    \E t \in Users, m \in Monitors :
        /\ op[t] = "disconnect" /\ pc[t] = "d_join"
        /\ mpc[m] = "m_notify"
        /\ ~connected /\ hist.owedFalse = 1

\* a disconnect() has returned and no connect() was called since
Late == hist.quiesced

\* the step of thread t writes bytes to the serial port
WriteStep(t) ==
    \/ pc[t] = "b_write" /\ pc'[t] = "b_close"
    \/ pc[t] = "b_probe" /\ pc'[t] = "b_wait" /\ m_isOpen
    \/ pc[t] = "x_send" /\ pc'[t] = "ret" /\ loc'[t].res
    \/ pc[t] = "l_send" /\ pc'[t] = "l_load"

\* C2: once disconnect() has returned no operation writes to the port any
\* more, also not one that passed its connected check before, and closing
\* the port completes every outstanding tracked request with Disconnected
C2_NoWriteAfterDisconnect ==
    [][/\ \A t \in Users : WriteStep(t) => ~Late
       /\ (m_isOpen /\ ~m_isOpen') =>
             /\ m_pendingCommandOrder' = <<>>
             /\ \A id \in DOMAIN m_pendingCommands :
                  promise'[id].st = "Disconnected"]_vars

\* C3: a thread that observes the live flag true observes the status
\* CONNECTED
C3_LiveImpliesConnected ==
    connected => atomicStatus = "CONNECTED"

\* the state disconnect() establishes (lines 741-758)
DisconnectedState ==
    /\ atomicStatus = "DISCONNECTED"
    /\ ~connected
    /\ ~m_isOpen
    /\ ~deviceInfo.isConnected
    /\ currentButtonMask = 0
    /\ ~lockStateCacheValid
    /\ ~buttonMonitoringEnabled

\* C7: when disconnect() returns the device is in the disconnected state
\* (status DISCONNECTED, live flag false, port closed, DeviceInfo.connected
\* false, mask 0, lock cache invalid, button monitoring off), and a
\* disconnect() that found the live flag false invokes no callback
C7_DisconnectPostcondition ==
    [][\A t \in Users :
         /\ (op[t] = "disconnect" /\ pc[t] = "d_notify" /\ pc'[t] = "ret")
               => DisconnectedState'
         /\ (op[t] = "disconnect" /\ pc[t] = "d_cas" /\ pc'[t] = "d_status" /\ ~connected)
               => ~loc'[t].shouldNotify
         /\ (op[t] = "disconnect" /\ pc[t] = "d_notify" /\ pc'[t] = "ret")
               => (loc'[t].notified <=> loc[t].shouldNotify)]_vars

\* C8: connect() and connectAsync() on a device whose live flag is set
\* return true and change nothing: port, pending commands, status,
\* DeviceInfo, monitors and owed callbacks are as before, and the mutex is
\* released
C8_ConnectWhenConnected ==
    [][\A t \in Users :
         (connected /\ pc[t] \in {"c_check", "a_check"} /\ pc'[t] # pc[t])
            => /\ pc'[t] = "ret"
               /\ loc'[t].res
               /\ ~loc'[t].notified
               /\ mutex' = "free"
               /\ UNCHANGED <<devVars, monVars, portVars, hist>>]_vars

\* a connect() on a connected device has returned true through the early
\* exit: it resolved no port, and the monitor of the session is running
C8_Witness ==
    \E t \in Users :
        /\ op[t] = "connect" /\ pc[t] = "ret" /\ loc[t].res
        /\ loc[t].port = NoPort
        /\ connected /\ atomicStatus = "CONNECTED" /\ m_isOpen
        /\ monitoringThread # 0

\* the monitor m is inside its loop
MonitorRunning(m) == mpc[m] \in {"m_stop", "m_load", "m_probe", "m_cas", "m_wait"}

\* C9: whenever connect() returns false the port is closed, the live flag
\* is false, no health monitor is running and the call has not invoked the
\* connection callback
C9_FailedConnectIsClean ==
    [][\A t \in Users :
         (op[t] = "connect" /\ pc[t] # "ret" /\ pc'[t] = "ret" /\ ~loc'[t].res)
            => /\ ~m_isOpen'
               /\ ~connected'
               /\ \A m \in Monitors : ~MonitorRunning(m)'
               /\ ~loc'[t].notified]_vars

\* the step of t is a failing return of connect() after the status became
\* CONNECTING
FailsAfterConnecting(t) ==
    /\ op[t] = "connect"
    /\ pc[t] \in {"c_open", "c_fail", "c_thread_fail"}
    /\ pc'[t] = "ret"
    /\ ~loc'[t].res

\* C10 as stated: the failure cleanup of connect() ends in DISCONNECTED
C10_FailedConnectEndsDisconnected ==
    [][\A t \in Users : FailsAfterConnecting(t) => atomicStatus' = "DISCONNECTED"]_vars

\* C10: a connect() that fails after the status became CONNECTING stores
\* CONNECTION_ERROR as its last status and never stores DISCONNECTED; the
\* status leaves CONNECTION_ERROR only by a later connect(), by
\* disconnect(), or by the state clear of a monitor that had detected a loss
C10_FailedConnectLeavesError ==
    [][/\ \A t \in Users : FailsAfterConnecting(t) => atomicStatus' = "CONNECTION_ERROR"
       /\ \A t \in Users :
            (op[t] = "connect" /\ pc'[t] # pc[t] /\ atomicStatus' # atomicStatus)
               => atomicStatus' # "DISCONNECTED"
       /\ (atomicStatus = "CONNECTION_ERROR" /\ atomicStatus' # atomicStatus)
            => \/ \E t \in Users : pc[t] \in {"c_check", "d_status"} /\ pc'[t] # pc[t]
               \/ \E m \in Monitors : mpc[m] = "m_status" /\ mpc'[m] # mpc[m]]_vars

\* a connect("P") has failed after CONNECTING and returned with the status
\* CONNECTION_ERROR
C10_Witness ==
    \E t \in Users :
        /\ op[t] = "connect" /\ pc[t] = "ret" /\ ~loc[t].res
        /\ loc[t].port = DevPort
        /\ atomicStatus = "CONNECTION_ERROR"

(***************************************************************************)
(* Properties of the request tracking                                      *)
(***************************************************************************)
\* requests submitted so far
Issued == 1..m_commandCounter
Failed(id) == promise[id].st \in {"TimedOut", "Disconnected"}

\* C4: with a device that answers in the order received, responses are
\* matched to requests in send order: a slot is fulfilled only when no
\* earlier request that expects a response is still pending, of two
\* fulfilled requests the earlier holds the earlier response line, and as
\* long as no request has failed every request holds the line that answers it
C4_FifoCorrelation ==
    /\ [](\A r1 \in Issued, r2 \in Issued :
            r1 < r2 /\ promise[r1].st = "value" /\ promise[r2].st = "value"
               => promise[r1].for < promise[r2].for)
    /\ [](\A r \in Issued :
            promise[r].st = "value" /\ (\A q \in 1..r : ~Failed(q))
               => promise[r].for = r)
    /\ [][\A r2 \in DOMAIN m_pendingCommands :
            promise'[r2].st = "value"
               => \A r1 \in DOMAIN m_pendingCommands :
                    r1 < r2 => ~m_pendingCommands[r1].expect_response]_vars

\* R1 and R2 both expect a response, were pending together, and each holds
\* the line that answers it
C4_Witness ==
    /\ m_commandCounter >= 2
    /\ promise[1] = Value(1, "km.MAKCU")
    /\ promise[2] = Value(2, "other")

\* C5: a PendingCommand is completed exactly once, by a response, by the
\* sweep with TimedOut and only after its deadline, or by the close with
\* Disconnected; a completed command is neither in the map nor in the FIFO,
\* so the sweep leaves no timed-out command behind
C5_CompletedOnce ==
    /\ [](/\ \A id \in Issued : (id \in DOMAIN m_pendingCommands) <=> promise[id].st = "unset"
          /\ DOMAIN m_pendingCommands \subseteq Issued
          /\ Len(m_pendingCommandOrder) = Cardinality(DOMAIN m_pendingCommands)
          /\ \A i \in 1..Len(m_pendingCommandOrder) :
               m_pendingCommandOrder[i] \in DOMAIN m_pendingCommands)
    /\ [][\A id \in Issued :
            /\ promise[id].st # "unset" => promise'[id] = promise[id]
            /\ promise[id].st = "unset" /\ promise'[id].st = "TimedOut"
                 => m_pendingCommands[id].expired
            /\ promise[id].st = "unset" /\ promise'[id].st = "Disconnected"
                 => m_isOpen /\ ~m_isOpen'
            /\ promise[id].st = "unset" /\ promise'[id].st = "value"
                 => id = ResponseTarget]_vars

\* one request was answered, one was failed by the sweep after its deadline
C5_Witness ==
    /\ m_commandCounter >= 2
    /\ \E a \in Issued, b \in Issued :
         /\ promise[a].st = "value"
         /\ promise[b].st = "TimedOut"
    /\ m_pendingCommandOrder = << >>

(***************************************************************************)
(* Properties of the button handler                                        *)
(***************************************************************************)
\* bit n of a mask
Bit(mask, n) == (mask \div (2 ^ n)) % 2 = 1

\* C6: whatever the interleaving of concurrent button events, the mask is
\* the bitwise reconstruction of the state last reported for each button
C6_MaskIsLastState ==
    /\ \A b \in Buttons : Bit(currentButtonMask, b) <=> hist.last[b]
    /\ currentButtonMask < 2 ^ (MaxButton + 1)

\* two handlers are past their read-modify-write at the same time, one for
\* a press and one for a release of another button, and a third button is
\* held
C6_Witness ==
    \E t \in Users, u \in Users :
        /\ pc[t] = "h_cb" /\ pc[u] = "h_cb"
        /\ loc[t].pressed /\ ~loc[u].pressed
        /\ loc[t].button # loc[u].button
        /\ \E b \in Buttons \ {loc[t].button, loc[u].button} : Bit(currentButtonMask, b)

\* ---------------------------------------------------------------------
\* ConnectionStatus transitions

\* the transitions of the data model: DISCONNECTED or CONNECTION_ERROR to
\* CONNECTING, CONNECTING to CONNECTED or CONNECTION_ERROR,
\* CONNECTION_ERROR to DISCONNECTED, CONNECTED to DISCONNECTED
ModelTransitions ==
    { <<"DISCONNECTED", "CONNECTING">>, <<"CONNECTION_ERROR", "CONNECTING">>,
      <<"CONNECTING", "CONNECTED">>, <<"CONNECTING", "CONNECTION_ERROR">>,
      <<"CONNECTION_ERROR", "DISCONNECTED">>, <<"CONNECTED", "DISCONNECTED">> }

\* the step is taken by a thread inside connect()
ByConnect == \E t \in Users : op[t] = "connect" /\ pc'[t] # pc[t]

\* C11: every change of the connection status is a transition of the data
\* model, and CONNECTING is entered only by a step of connect()
C11_StatusTransitions ==
    [][atomicStatus' # atomicStatus =>
          /\ <<atomicStatus, atomicStatus'>> \in ModelTransitions
          /\ atomicStatus' = "CONNECTING" => ByConnect]_vars

(***************************************************************************)
(* The typed operations of Device (makcu.cpp 782-969, 1120-1246): the      *)
(* entry check of the live flag, then the commands handed to               *)
(* Impl::executeCommand (417-432) or to SerialPort::sendTrackedCommand.    *)
(***************************************************************************)
\* arguments of a typed operation
NoArgs == [button |-> 0, x |-> 0, y |-> 0, segments |-> 0, ctrl_x |-> 0, ctrl_y |-> 0, delta |-> 0,
           enable |-> FALSE, serial |-> << >>, scroll_steps |-> 0, jitter |-> << >>]

\* catchMouseLeft .. catchMouseSide2 and the command each one sends
CatchOps == {"catchMouseLeft", "catchMouseMiddle", "catchMouseRight",
             "catchMouseSide1", "catchMouseSide2"}
TrackedOps == CatchOps \cup {"getMouseSerial", "getVersion"}
TrackedCommand(name) ==
    CASE name = "catchMouseLeft" -> "km.catch_ml()"
      [] name = "catchMouseMiddle" -> "km.catch_mm()"
      [] name = "catchMouseRight" -> "km.catch_mr()"
      [] name = "catchMouseSide1" -> "km.catch_ms1()"
      [] name = "catchMouseSide2" -> "km.catch_ms2()"
      [] name = "getMouseSerial" -> "km.serial()"
      [] name = "getVersion" -> "km.version()"

\* the operations that look up the cached commands of a button first
ButtonOps == {"mouseDown", "mouseUp", "click", "mouseDrag", "mouseDragSmooth",
              "mouseDragBezier"}

\* what an operation returns when it fails: 0 for catch_*, "" for the
\* string queries, false otherwise
FailureValue(name) ==
    IF name \in CatchOps THEN 0
    ELSE IF name \in {"getMouseSerial", "getVersion"} THEN ""
    ELSE FALSE

clickProgramMut(button) ==
    <<Cached(getReleaseCommand(button)), Cached(getPressCommand(button))>>

\* click lines 856-862: executeCommand(press), executeCommand(release)
clickProgram(button) ==
    <<Cached(getPressCommand(button)), Cached(getReleaseCommand(button))>>

\* mouseDrag lines 917-920, mouseDragSmooth 934-937, mouseDragBezier
\* 952-955: press, the move, release
dragProgram(button, move) ==
    <<Cached(getPressCommand(button)), move, Cached(getReleaseCommand(button))>>

RECURSIVE CachedAll(_)
CachedAll(commands) ==
    IF commands = << >> THEN << >>
    ELSE <<Cached(Head(commands))>> \o CachedAll(Tail(commands))

\* int32_t division and remainder of C++: the quotient is truncated
\* towards zero and the remainder has the sign of the dividend
TruncDiv(a, b) == IF a < 0 THEN 0 - ((0 - a) \div b) ELSE a \div b
TruncRem(a, b) == a - b * TruncDiv(a, b)

\* human_patterns.cpp lines 173-174
step_size(delta, scroll_steps) == TruncDiv(delta, scroll_steps)
remainder(delta, scroll_steps) == TruncRem(delta, scroll_steps)

\* human_patterns.cpp lines 177-180: the delta of iteration i = 0, 1, ...
current_delta(delta, scroll_steps, i) ==
    step_size(delta, scroll_steps) +
        (IF i < remainder(delta, scroll_steps)
         THEN (IF delta > 0 THEN 1 ELSE 0 - 1) ELSE 0)

RECURSIVE scrollProgram(_, _, _, _)
\* HumanPatterns::scrollHumanLike lines 176-187 from iteration i on:
\* applyJitter (lines 272-274) calls mouseMove with the offset drawn for
\* the iteration, << >> when the draw of line 183 lets it pass; then
\* mouseWheel(current_delta)
scrollProgram(delta, scroll_steps, jitter, i) ==
    IF ~(i < scroll_steps) THEN << >>
    ELSE (IF jitter[i + 1] = << >> THEN << >>
          ELSE <<MoveRequest(jitter[i + 1][1], jitter[i + 1][2])>>)
         \o <<WheelRequest(current_delta(delta, scroll_steps, i))>>
         \o scrollProgram(delta, scroll_steps, jitter, i + 1)

\* the commands an operation executes, in the order of its code
Program(name, a) ==
    CASE name = "mouseDown" -> <<Cached(getPressCommand(a.button))>>
      [] name = "mouseUp" -> <<Cached(getReleaseCommand(a.button))>>
      [] name = "click" -> clickProgram(a.button)
      [] name = "mouseMove" -> <<MoveRequest(a.x, a.y)>>
      [] name = "mouseMoveSmooth" -> <<SmoothMoveRequest(a.x, a.y, a.segments)>>
      [] name = "mouseMoveBezier" ->
            <<BezierMoveRequest(a.x, a.y, a.segments, a.ctrl_x, a.ctrl_y)>>
      [] name = "mouseDrag" -> dragProgram(a.button, MoveRequest(a.x, a.y))
      [] name = "mouseDragSmooth" ->
            dragProgram(a.button, SmoothMoveRequest(a.x, a.y, a.segments))
      [] name = "mouseDragBezier" ->
            dragProgram(a.button,
                        BezierMoveRequest(a.x, a.y, a.segments, a.ctrl_x, a.ctrl_y))
      [] name = "mouseWheel" -> <<WheelRequest(a.delta)>>
      [] name = "enableButtonMonitoring" ->
            <<Cached(IF a.enable THEN "km.buttons(1)" ELSE "km.buttons(0)")>>
      [] name = "setMouseSerial" ->
            <<Cached(Bytes("km.serial('") \o escapeSingleQuotedCommandString(a.serial)
                        \o Bytes("')"))>>
      [] name = "resetMouseSerial" -> <<Cached("km.serial(0)")>>
      [] name = "execute" -> CachedAll(m_commands)
      [] name = "scrollHumanLike" -> scrollProgram(a.delta, a.scroll_steps, a.jitter, 0)

StopsAtFailureMut(name) == FALSE

\* BatchCommandBuilder::execute returns false inside its loop (lines
\* 1504-1508); click and the drags run every command and return the
\* conjunction of the results
StopsAtFailure(name) == name = "execute"

\* what the operation returns after its last command: the conjunction of
\* the results, but true for scrollHumanLike, which drops them
\* (human_patterns.cpp lines 187 and 197)
Result(name, acc) == IF name = "scrollHumanLike" THEN TRUE ELSE acc

\* t enters the operation name with arguments a
Enter(t, name, a) ==
    /\ pc' = [pc EXCEPT ![t] = "t_check"]
    /\ op' = [op EXCEPT ![t] = name]
    /\ loc' = [loc EXCEPT ![t] = [DefaultLoc EXCEPT !.args = a, !.step = 1]]

\* the operation of t returns res with the locals l
Finish(t, l, res) ==
    /\ pc' = [pc EXCEPT ![t] = "ret"]
    /\ loc' = [loc EXCEPT ![t] = [l EXCEPT !.res = res]]
    /\ UNCHANGED <<op, hist>>

mouseDown(t, button) ==
    /\ pc[t] = "idle"
    /\ Enter(t, "mouseDown", [NoArgs EXCEPT !.button = button])
    /\ UNCHANGED <<devVars, mutex, monVars, portVars, devicePresent, opVars, hist>>

mouseUp(t, button) ==
    /\ pc[t] = "idle"
    /\ Enter(t, "mouseUp", [NoArgs EXCEPT !.button = button])
    /\ UNCHANGED <<devVars, mutex, monVars, portVars, devicePresent, opVars, hist>>

click(t, button) ==
    /\ pc[t] = "idle"
    /\ Enter(t, "click", [NoArgs EXCEPT !.button = button])
    /\ UNCHANGED <<devVars, mutex, monVars, portVars, devicePresent, opVars, hist>>

mouseMove(t, x, y) ==
    /\ pc[t] = "idle"
    /\ Enter(t, "mouseMove", [NoArgs EXCEPT !.x = x, !.y = y])
    /\ UNCHANGED <<devVars, mutex, monVars, portVars, devicePresent, opVars, hist>>

mouseMoveSmooth(t, x, y, segments) ==
    /\ pc[t] = "idle"
    /\ Enter(t, "mouseMoveSmooth", [NoArgs EXCEPT !.x = x, !.y = y, !.segments = segments])
    /\ UNCHANGED <<devVars, mutex, monVars, portVars, devicePresent, opVars, hist>>

mouseMoveBezier(t, x, y, segments, ctrl_x, ctrl_y) ==
    /\ pc[t] = "idle"
    /\ Enter(t, "mouseMoveBezier",
             [NoArgs EXCEPT !.x = x, !.y = y, !.segments = segments,
                            !.ctrl_x = ctrl_x, !.ctrl_y = ctrl_y])
    /\ UNCHANGED <<devVars, mutex, monVars, portVars, devicePresent, opVars, hist>>

mouseDrag(t, button, x, y) ==
    /\ pc[t] = "idle"
    /\ Enter(t, "mouseDrag", [NoArgs EXCEPT !.button = button, !.x = x, !.y = y])
    /\ UNCHANGED <<devVars, mutex, monVars, portVars, devicePresent, opVars, hist>>

mouseDragSmooth(t, button, x, y, segments) ==
    /\ pc[t] = "idle"
    /\ Enter(t, "mouseDragSmooth",
             [NoArgs EXCEPT !.button = button, !.x = x, !.y = y, !.segments = segments])
    /\ UNCHANGED <<devVars, mutex, monVars, portVars, devicePresent, opVars, hist>>

mouseDragBezier(t, button, x, y, segments, ctrl_x, ctrl_y) ==
    /\ pc[t] = "idle"
    /\ Enter(t, "mouseDragBezier",
             [NoArgs EXCEPT !.button = button, !.x = x, !.y = y, !.segments = segments,
                            !.ctrl_x = ctrl_x, !.ctrl_y = ctrl_y])
    /\ UNCHANGED <<devVars, mutex, monVars, portVars, devicePresent, opVars, hist>>

mouseWheel(t, delta) ==
    /\ pc[t] = "idle"
    /\ Enter(t, "mouseWheel", [NoArgs EXCEPT !.delta = delta])
    /\ UNCHANGED <<devVars, mutex, monVars, portVars, devicePresent, opVars, hist>>

enableButtonMonitoring(t, enable) ==
    /\ pc[t] = "idle"
    /\ Enter(t, "enableButtonMonitoring", [NoArgs EXCEPT !.enable = enable])
    /\ UNCHANGED <<devVars, mutex, monVars, portVars, devicePresent, opVars, hist>>

setMouseSerial(t, serial) ==
    /\ pc[t] = "idle"
    /\ Enter(t, "setMouseSerial", [NoArgs EXCEPT !.serial = serial])
    /\ UNCHANGED <<devVars, mutex, monVars, portVars, devicePresent, opVars, hist>>

\* HumanPatterns::scrollHumanLike(delta, scroll_steps, profile); the
\* profile and the random draws decide the offsets of jitter
scrollHumanLike(t, delta, scroll_steps, jitter) ==
    /\ pc[t] = "idle"
    /\ Enter(t, "scrollHumanLike",
             [NoArgs EXCEPT !.delta = delta, !.scroll_steps = scroll_steps, !.jitter = jitter])
    /\ UNCHANGED <<devVars, mutex, monVars, portVars, devicePresent, opVars, hist>>

resetMouseSerial(t) ==
    /\ pc[t] = "idle"
    /\ Enter(t, "resetMouseSerial", NoArgs)
    /\ UNCHANGED <<devVars, mutex, monVars, portVars, devicePresent, opVars, hist>>

\* one of catchMouseLeft .. catchMouseSide2
catchMouse(t, name) ==
    /\ pc[t] = "idle"
    /\ Enter(t, name, NoArgs)
    /\ UNCHANGED <<devVars, mutex, monVars, portVars, devicePresent, opVars, hist>>

getMouseSerial(t) ==
    /\ pc[t] = "idle"
    /\ Enter(t, "getMouseSerial", NoArgs)
    /\ UNCHANGED <<devVars, mutex, monVars, portVars, devicePresent, opVars, hist>>

getVersion(t) ==
    /\ pc[t] = "idle"
    /\ Enter(t, "getVersion", NoArgs)
    /\ UNCHANGED <<devVars, mutex, monVars, portVars, devicePresent, opVars, hist>>

NotLiveMut == FALSE

\* !m_impl->connected.load(), the first statement of every typed operation
NotLive == ~connected

\* the entry check; then the cached commands of the button (a null one
\* returns false), and the first command or the tracked request
TypedCheck(t) ==
    /\ pc[t] = "t_check"
    /\ IF NotLive
       THEN Finish(t, loc[t], FailureValue(op[t]))
       ELSE IF op[t] \in ButtonOps /\ getPressCommand(loc[t].args.button) = nullptr
       THEN Finish(t, loc[t], FALSE)
       ELSE IF op[t] \in TrackedOps
       THEN /\ Goto(t, "t_send")
            /\ UNCHANGED <<op, loc, hist>>
       ELSE IF Program(op[t], loc[t].args) = << >>
       THEN Finish(t, loc[t], TRUE)
       ELSE /\ Goto(t, "t_exec")
            /\ UNCHANGED <<op, loc, hist>>
    /\ UNCHANGED <<devVars, mutex, monVars, portVars, devicePresent, opVars>>

\* the command of t has the result ok: the next command, or the return
\* value (for enableButtonMonitoring the flag is stored first)
Advance(t, l, ok) ==
    LET acc == l.acc /\ ok
        n == Len(Program(op[t], l.args))
    IN
    IF ~ok /\ StopsAtFailure(op[t])
    THEN Finish(t, [l EXCEPT !.acc = acc], FALSE)
    ELSE IF l.step < n
    THEN /\ pc' = [pc EXCEPT ![t] = "t_exec"]
         /\ loc' = [loc EXCEPT ![t] = [l EXCEPT !.acc = acc, !.step = @ + 1]]
         /\ UNCHANGED <<op, hist>>
    ELSE IF op[t] = "enableButtonMonitoring" /\ acc
    THEN /\ pc' = [pc EXCEPT ![t] = "t_store"]
         /\ loc' = [loc EXCEPT ![t] = [l EXCEPT !.acc = acc]]
         /\ UNCHANGED <<op, hist>>
    ELSE Finish(t, [l EXCEPT !.acc = acc], Result(op[t], acc))

\* the argument validation of execute*Command, then executeCommand line
\* 418: if (!connected.load(acquire)) return false
ExecuteCheck(t) ==
    /\ pc[t] = "t_exec"
    /\ LET req == Program(op[t], loc[t].args)[loc[t].step] IN
       IF req.valid /\ connected
       THEN /\ Goto(t, "t_write")
            /\ UNCHANGED <<op, loc, hist>>
       ELSE Advance(t, loc[t], FALSE)
    /\ UNCHANGED <<devVars, mutex, monVars, portVars, devicePresent, opVars>>

\* executeCommand line 424: serialPort->sendCommand(command)
ExecuteSend(t) ==
    /\ pc[t] = "t_write"
    /\ LET req == Program(op[t], loc[t].args)[loc[t].step] IN
       IF WriteSucceeds
       THEN Advance(t, [loc[t] EXCEPT !.wrote = Append(@, req.text)], TRUE)
       ELSE Advance(t, loc[t], FALSE)
    /\ UNCHANGED <<devVars, mutex, monVars, portVars, devicePresent, opVars>>

\* enableButtonMonitoring lines 1203-1205: store the flag after a
\* successful command
ButtonMonitoringStore(t) ==
    /\ pc[t] = "t_store"
    /\ buttonMonitoringEnabled' = loc[t].args.enable
    /\ Finish(t, loc[t], TRUE)
    /\ UNCHANGED <<connected, atomicStatus, deviceInfo, currentButtonMask, lockStateCache,
                   lockStateCacheValid, mutex, monVars, portVars, devicePresent, opVars>>

\* sendTrackedCommand(command, true, timeout) of catch_*, getMouseSerial
\* and of an attempt of getVersion
TrackedSend(t) ==
    /\ pc[t] = "t_send"
    /\ m_commandCounter + 1 \in DOMAIN promise
    /\ PortSendTracked(TrackedCommand(op[t]), TRUE)
    /\ loc' = [loc EXCEPT ![t].future = m_commandCounter + 1,
                           ![t].attempt = @ + 1,
                           ![t].wrote = IF WriteSucceeds
                                        THEN Append(@, TrackedCommand(op[t])) ELSE @]
    /\ Goto(t, "t_wait")
    /\ UNCHANGED <<devVars, mutex, monVars, devicePresent, op, opVars, hist>>

\* the three attempts of getVersion (lines 789-793)
VersionAttemptsMut == 3 + 1
VersionAttempts == 3

\* future.get(): catch_* parses a decimal byte (0 if there is none),
\* getMouseSerial returns the text, getVersion returns a non-empty text and
\* otherwise tries again while the device is live
TrackedWait(t) ==
    /\ pc[t] = "t_wait"
    /\ LET f == promise[loc[t].future] IN
       /\ f.st # "unset"
       /\ IF op[t] \in CatchOps
          THEN Finish(t, loc[t],
                      IF f.st = "value" /\ parseUint8Decimal(f.text) # nullopt
                      THEN parseUint8Decimal(f.text) ELSE 0)
          ELSE IF op[t] = "getMouseSerial"
          THEN Finish(t, loc[t], IF f.st = "value" THEN f.text ELSE "")
          ELSE IF f.st = "value" /\ f.text # ""
          THEN Finish(t, loc[t], f.text)
          ELSE IF ~connected \/ loc[t].attempt = VersionAttempts
          THEN Finish(t, loc[t], "")
          ELSE /\ Goto(t, "t_send")
               /\ UNCHANGED <<op, loc, hist>>
    /\ UNCHANGED <<devVars, mutex, monVars, portVars, devicePresent, opVars>>

TypedStep(t) ==
    \/ TypedCheck(t)
    \/ ExecuteCheck(t)
    \/ ExecuteSend(t)
    \/ ButtonMonitoringStore(t)
    \/ TrackedSend(t)
    \/ TrackedWait(t)

(***************************************************************************)
(* Device::BatchCommandBuilder (makcu.cpp 1359-1510) and Device::~Device   *)
(* (573-578).  A builder method is one step of the thread that owns the    *)
(* builder; execute() runs its commands through Impl::executeCommand.      *)
(***************************************************************************)
\* the longest command list a builder of the model holds
MaxBatch == 3

isDeviceAliveMut == TRUE

\* isDeviceAlive, lines 1363-1367: the token the Device set up is still true
isDeviceAlive == m_lifetimeToken

\* a builder method appends commands unless the device is gone
Enqueue(commands) ==
    /\ Len(m_commands) + Len(commands) <= MaxBatch
    /\ m_commands' = IF isDeviceAlive THEN m_commands \o commands ELSE m_commands
    /\ UNCHANGED <<devVars, mutex, monVars, portVars, devicePresent, thrVars,
                   m_lifetimeToken, mouseButtonCallback, connectionCallback, hist>>

\* the entries click, press, release and the drags add for a button: none
\* when a cached command is missing
IfCached(button, commands) ==
    IF getPressCommand(button) # nullptr /\ getReleaseCommand(button) # nullptr
    THEN commands ELSE << >>

BatchMove(t, x, y) ==
    /\ pc[t] = "idle"
    /\ Enqueue(<<MoveRequest(x, y).text>>)

BatchMoveSmooth(t, x, y, segments) ==
    /\ pc[t] = "idle"
    /\ Enqueue(<<SmoothMoveRequest(x, y, segments).text>>)

BatchMoveBezier(t, x, y, segments, ctrl_x, ctrl_y) ==
    /\ pc[t] = "idle"
    /\ Enqueue(<<BezierMoveRequest(x, y, segments, ctrl_x, ctrl_y).text>>)

BatchClick(t, button) ==
    /\ pc[t] = "idle"
    /\ Enqueue(IfCached(button, <<getPressCommand(button), getReleaseCommand(button)>>))

BatchPress(t, button) ==
    /\ pc[t] = "idle"
    /\ Enqueue(IfCached(button, <<getPressCommand(button)>>))

BatchRelease(t, button) ==
    /\ pc[t] = "idle"
    /\ Enqueue(IfCached(button, <<getReleaseCommand(button)>>))

BatchScroll(t, delta) ==
    /\ pc[t] = "idle"
    /\ Enqueue(<<WheelRequest(delta).text>>)

BatchDrag(t, button, x, y) ==
    /\ pc[t] = "idle"
    /\ Enqueue(IfCached(button, <<getPressCommand(button), MoveRequest(x, y).text,
                                     getReleaseCommand(button)>>))

BatchDragSmooth(t, button, x, y, segments) ==
    /\ pc[t] = "idle"
    /\ Enqueue(IfCached(button, <<getPressCommand(button),
                                     SmoothMoveRequest(x, y, segments).text,
                                     getReleaseCommand(button)>>))

BatchDragBezier(t, button, x, y, segments, ctrl_x, ctrl_y) ==
    /\ pc[t] = "idle"
    /\ Enqueue(IfCached(button, <<getPressCommand(button),
                                     BezierMoveRequest(x, y, segments, ctrl_x, ctrl_y).text,
                                     getReleaseCommand(button)>>))

\* thread t calls execute() of the builder
BatchExecute(t) ==
    /\ pc[t] = "idle"
    /\ pc' = [pc EXCEPT ![t] = "t_alive"]
    /\ op' = [op EXCEPT ![t] = "execute"]
    /\ loc' = [loc EXCEPT ![t] = [DefaultLoc EXCEPT !.args = NoArgs, !.step = 1]]
    /\ UNCHANGED <<devVars, mutex, monVars, portVars, devicePresent, opVars, hist>>

\* execute lines 1496-1498: if (!isDeviceAlive()) return false
BatchAlive(t) ==
    /\ pc[t] = "t_alive"
    /\ IF isDeviceAlive
       THEN /\ Goto(t, "t_check")
            /\ UNCHANGED <<op, loc, hist>>
       ELSE Finish(t, loc[t], FALSE)
    /\ UNCHANGED <<devVars, mutex, monVars, portVars, devicePresent, opVars>>

\* ~Device: the token is cleared, then disconnect() runs
DeviceDestroy(t) ==
    /\ pc[t] = "idle"
    /\ m_lifetimeToken
    /\ m_lifetimeToken' = FALSE
    /\ pc' = [pc EXCEPT ![t] = "d_lock"]
    /\ op' = [op EXCEPT ![t] = "~Device"]
    /\ UNCHANGED <<devVars, mutex, monVars, portVars, devicePresent, loc, m_commands,
                   mouseButtonCallback, connectionCallback, hist>>

(***************************************************************************)
(* The operation-level specifications.  They start from a fresh Device or  *)
(* from the state a successful connect() leaves (the lifecycle             *)
(* specification reaches it), with the monitor of that session running.    *)
(***************************************************************************)
\* the state after connect() has returned true and its caller has left,
\* with the command ids the port can hand out
LiveWith(ids) ==
    /\ connected = TRUE
    /\ atomicStatus = "CONNECTED"
    /\ deviceInfo = [port |-> DevPort, isConnected |-> TRUE]
    /\ currentButtonMask = 0
    /\ lockStateCache = 0
    /\ lockStateCacheValid = FALSE
    /\ buttonMonitoringEnabled = TRUE
    /\ mutex = "free"
    /\ monitoringThread = 1
    /\ stopRequested = [m \in Monitors |-> FALSE]
    /\ mpc = [m \in Monitors |-> IF m = 1 THEN "m_stop" ELSE "unborn"]
    /\ m_isOpen = TRUE
    /\ m_portName = DevPort
    /\ m_baudRate = HIGH_SPEED_BAUD_RATE
    /\ m_commandCounter = 1
    /\ m_pendingCommands = << >>
    /\ m_pendingCommandOrder = << >>
    /\ promise = [i \in ids |-> NoValue]
    /\ devicePresent = TRUE
    /\ devInbox = << >>
    /\ pc = [t \in Users |-> "idle"]
    /\ op = [t \in Users |-> "none"]
    /\ loc = [t \in Users |-> DefaultLoc]
    /\ m_lifetimeToken = TRUE
    /\ m_commands = << >>
    /\ mouseButtonCallback = "returns"
    /\ connectionCallback = "returns"
    /\ hist = InitHist

InitLive == LiveWith(CmdIds)

\* the button arguments: the five buttons and MouseButton::UNKNOWN
ButtonArgs == MouseButtons \cup {UNKNOWN}
\* coordinates, control offsets and deltas around the two bounds
Coords == {MIN_COORD - 1, MIN_COORD, 0, MAX_COORD, MAX_COORD + 1}
\* segment counts around the cap
Segments == {MAX_SEGMENTS, MAX_SEGMENTS + 1}
\* argument tuples with at most one coordinate away from 0
MoveArgs ==
    {a \in [x : Coords, y : Coords, ctrl_x : Coords, ctrl_y : Coords] :
        Cardinality({f \in {"x", "y", "ctrl_x", "ctrl_y"} : a[f] # 0}) <= 1}
\* the buttons a drag is tried with
DragButtons == {0, UNKNOWN}
\* a serial number, as a sequence of bytes (A and the quote)
Serials == {<<65, 39>>}
\* the response texts of the device to a tracked query
OpTexts == Texts \cup {"7", ""}
\* one argument in range and one out of range, for the specification of
\* all operations
OpsCoords == {0, MAX_COORD + 1}

\* an idle thread calls one of the typed operations
CallTyped(t) ==
    \/ \E button \in DragButtons : mouseDown(t, button)
    \/ \E button \in DragButtons : mouseUp(t, button)
    \/ \E button \in DragButtons : click(t, button)
    \/ \E x \in OpsCoords : mouseMove(t, x, 0)
    \/ \E x \in OpsCoords : mouseMoveSmooth(t, x, 0, MAX_SEGMENTS)
    \/ \E x \in OpsCoords : mouseMoveBezier(t, x, 0, MAX_SEGMENTS, 0, 0)
    \/ \E x \in OpsCoords : mouseDrag(t, 0, x, 0)
    \/ \E x \in OpsCoords : mouseDragSmooth(t, 0, x, 0, MAX_SEGMENTS)
    \/ \E x \in OpsCoords : mouseDragBezier(t, 0, x, 0, MAX_SEGMENTS, 0, 0)
    \/ \E delta \in OpsCoords : mouseWheel(t, delta)
    \/ \E enable \in BOOLEAN : enableButtonMonitoring(t, enable)
    \/ \E serial \in Serials : setMouseSerial(t, serial)
    \/ resetMouseSerial(t)
    \/ \E name \in CatchOps : catchMouse(t, name)
    \/ getMouseSerial(t)
    \/ getVersion(t)

\* every typed operation on a fresh or a connected Device, with the health
\* monitor and the link
InitOps == Init \/ InitLive

NextOps ==
    \/ \E t \in Owners : CallTyped(t)
    \/ \E t \in Owners : TypedStep(t)
    \/ \E t \in Owners, rate \in BaudInputs, validate \in BOOLEAN : BaudCall(t, rate, validate)
    \/ \E t \in Owners : BaudStep(t)
    \/ \E t \in Owners : DisconnectStep(t)
    \/ \E t \in Owners, lock \in BOOLEAN : LockCall(t, 0, lock)
    \/ \E t \in Owners : LockStep(t)
    \/ \E t \in Owners : BatchClick(t, 0)
    \/ \E t \in Owners : BatchExecute(t)
    \/ \E t \in Owners : BatchAlive(t)
    \/ \E t \in Owners : Leave(t)
    \/ \E m \in Monitors : MonitorStep(m)
    \/ Unplug
    \/ Plug
    \/ \E text \in OpTexts : DeviceRespond(text)
    \/ \E id \in CmdIds : Expire(id)
    \/ Sweep

SpecOps == InitOps /\ [][NextOps]_vars

\* an idle thread calls click, a move, a drag or the wheel with arguments
\* around the bounds
CallMove(t) ==
    \/ \E button \in ButtonArgs : click(t, button)
    \/ \E a \in MoveArgs : mouseMove(t, a.x, a.y)
    \/ \E a \in MoveArgs, segments \in Segments : mouseMoveSmooth(t, a.x, a.y, segments)
    \/ \E a \in MoveArgs, segments \in Segments :
          mouseMoveBezier(t, a.x, a.y, segments, a.ctrl_x, a.ctrl_y)
    \/ \E button \in DragButtons, a \in MoveArgs : mouseDrag(t, button, a.x, a.y)
    \/ \E button \in DragButtons, a \in MoveArgs, segments \in Segments :
          mouseDragSmooth(t, button, a.x, a.y, segments)
    \/ \E button \in DragButtons, a \in MoveArgs, segments \in Segments :
          mouseDragBezier(t, button, a.x, a.y, segments, a.ctrl_x, a.ctrl_y)
    \/ \E delta \in Coords : mouseWheel(t, delta)

\* click, moves, drags and wheel on a connected Device whose link can fail
NextMove ==
    \/ \E t \in Owners : CallMove(t)
    \/ \E t \in Owners : TypedCheck(t)
    \/ \E t \in Owners : ExecuteCheck(t)
    \/ \E t \in Owners : ExecuteSend(t)
    \/ \E t \in Owners : Leave(t)
    \/ \E m \in Monitors : MonitorStep(m)
    \/ Unplug
    \/ Plug

SpecMove == InitLive /\ [][NextMove]_vars

\* ---------------------------------------------------------------------
\* Typed operations on a Device that is not connected

\* the entry checks of the typed operations, of setBaudRate and of the
\* lock methods
EntryChecks == {"t_check", "b_check", "l_check"}

\* C12: a typed operation that finds the device not connected at its
\* entry check returns its failure value (false, 0 or "") at once, has
\* written nothing, and leaves the device state, the port and the caches
\* as they were
C12_FailFastWhenNotConnected ==
    [][\A t \in Users :
          (pc[t] \in EntryChecks /\ ~connected /\ pc'[t] # pc[t]) =>
              /\ pc'[t] = "ret"
              /\ loc'[t].res = FailureValue(op[t])
              /\ loc'[t].wrote = << >>
              /\ UNCHANGED <<devVars, portVars, opVars>>]_vars

\* getVersion has returned "" without sending anything while the port is
\* still open on a device that is no longer live
C12_Witness ==
    \E t \in Users :
        /\ pc[t] = "ret" /\ op[t] = "getVersion"
        /\ ~connected /\ m_isOpen /\ devicePresent
        /\ loc[t].attempt = 0 /\ loc[t].wrote = << >>
        /\ loc[t].res = ""

\* ---------------------------------------------------------------------
\* Argument validation of the moves and of the wheel

MoveOps == {"mouseMove", "mouseMoveSmooth", "mouseMoveBezier", "mouseWheel"}

\* a value that fits signed 16 bits
Fits16(v) == v \in (0 - 32768) .. 32767

\* every argument the operation of t was called with is inside its range
ArgsInRange(t) ==
    LET a == loc[t].args IN
    CASE op[t] = "mouseMove" -> Fits16(a.x) /\ Fits16(a.y)
      [] op[t] = "mouseMoveSmooth" -> Fits16(a.x) /\ Fits16(a.y) /\ a.segments <= 1000
      [] op[t] = "mouseMoveBezier" ->
            Fits16(a.x) /\ Fits16(a.y) /\ Fits16(a.ctrl_x) /\ Fits16(a.ctrl_y)
               /\ a.segments <= 1000
      [] op[t] = "mouseWheel" -> Fits16(a.delta)

\* the decimal notation of the in-range arguments the model calls with
Decimal(v) ==
    CASE v = 0 - 32768 -> "-32768"
      [] v = 0 -> "0"
      [] v = 32767 -> "32767"
      [] v = 1000 -> "1000"

\* the command that carries the arguments of t unchanged
ExpectedCommand(t) ==
    LET a == loc[t].args IN
    CASE op[t] = "mouseMove" -> "km.move(" \o Decimal(a.x) \o "," \o Decimal(a.y) \o ")"
      [] op[t] = "mouseMoveSmooth" ->
            "km.move(" \o Decimal(a.x) \o "," \o Decimal(a.y) \o "," \o Decimal(a.segments) \o ")"
      [] op[t] = "mouseMoveBezier" ->
            "km.move(" \o Decimal(a.x) \o "," \o Decimal(a.y) \o "," \o Decimal(a.segments)
               \o "," \o Decimal(a.ctrl_x) \o "," \o Decimal(a.ctrl_y) \o ")"
      [] op[t] = "mouseWheel" -> "km.wheel(" \o Decimal(a.delta) \o ")"

\* C13: a move or wheel call with an argument outside [-32768, 32767] or
\* with more than 1000 segments writes nothing and returns false; a call
\* whose arguments are all in range, the bounds included, passes the
\* validation, and what it writes is the command with exactly these
\* arguments
C13_RangeValidation ==
    /\ [](\A t \in Users :
            op[t] \in MoveOps =>
               IF ArgsInRange(t)
               THEN /\ loc[t].wrote \in {<< >>, <<ExpectedCommand(t)>>}
                    /\ pc[t] = "ret" => (loc[t].res <=> loc[t].wrote # << >>)
               ELSE /\ loc[t].wrote = << >>
                    /\ pc[t] = "ret" => loc[t].res = FALSE)
    /\ [][\A t \in Users :
            (op[t] \in MoveOps /\ pc[t] = "t_exec" /\ pc'[t] # pc[t]
                /\ ArgsInRange(t) /\ connected) => pc'[t] = "t_write"]_vars

\* a Bezier move with a control offset at the upper bound and 1000
\* segments has been written as it was given
C13_Witness ==
    \E t \in Users :
        /\ pc[t] = "ret" /\ op[t] = "mouseMoveBezier"
        /\ loc[t].args.ctrl_y = 32767 /\ loc[t].args.segments = 1000
        /\ loc[t].res = TRUE
        /\ loc[t].wrote = <<"km.move(0,0,1000,0,32767)">>

\* ---------------------------------------------------------------------
\* Drags

DragOps == {"mouseDrag", "mouseDragSmooth", "mouseDragBezier"}

\* C14: when one of the three commands of a drag fails (the move being
\* refused for an out-of-range argument included), the drag ends there
\* with the result false and writes no later command
C14_DragStopsAtFailure ==
    [][\A t \in Users :
          (op[t] \in DragOps /\ pc[t] \in {"t_exec", "t_write"} /\ pc'[t] # pc[t]
              /\ ~loc'[t].acc) =>
                 /\ pc'[t] = "ret"
                 /\ loc'[t].res = FALSE
                 /\ loc'[t].wrote = loc[t].wrote]_vars

\* ---------------------------------------------------------------------
\* click

\* the command names of LEFT, RIGHT, MIDDLE, SIDE1, SIDE2
ButtonName(button) == <<"left", "right", "middle", "ms1", "ms2">>[button + 1]

\* C15: what click(B) writes is the press command of B followed by the
\* release command of B, or the part of this pair whose writes succeeded,
\* and it returns true exactly when both have been written
C15_ClickPressThenRelease ==
    \A t \in Users :
        (op[t] = "click" /\ loc[t].args.button \in MouseButtons) =>
            LET press == "km." \o ButtonName(loc[t].args.button) \o "(1)"
                release == "km." \o ButtonName(loc[t].args.button) \o "(0)"
            IN /\ loc[t].wrote \in {<< >>, <<press>>, <<release>>, <<press, release>>}
               /\ pc[t] = "ret" => (loc[t].res <=> loc[t].wrote = <<press, release>>)

\* click(SIDE2) has returned true after writing both commands
C15_Witness ==
    \E t \in Users :
        /\ pc[t] = "ret" /\ op[t] = "click" /\ loc[t].args.button = 4
        /\ loc[t].res = TRUE
        /\ loc[t].wrote = <<"km.ms2(1)", "km.ms2(0)">>

(***************************************************************************)
(* The batch specification: one thread fills a builder, executes it and    *)
(* may destroy the Device; the link can fail and the monitor runs.         *)
(***************************************************************************)
\* a button with cached commands and one without
BatchButtons == {0, UNKNOWN}
\* the builder does not validate: one coordinate in range, one out of range
BatchCoords == {0, MAX_COORD + 1}

CallBatch(t) ==
    \/ \E x \in BatchCoords : BatchMove(t, x, 0)
    \/ BatchMoveSmooth(t, 0, 0, MAX_SEGMENTS)
    \/ BatchMoveBezier(t, 0, 0, MAX_SEGMENTS, 0, 0)
    \/ \E button \in BatchButtons : BatchClick(t, button)
    \/ \E button \in BatchButtons : BatchPress(t, button)
    \/ \E button \in BatchButtons : BatchRelease(t, button)
    \/ BatchScroll(t, 0)
    \/ \E button \in BatchButtons : BatchDrag(t, button, 0, 0)
    \/ \E button \in BatchButtons : BatchDragSmooth(t, button, 0, 0, MAX_SEGMENTS)
    \/ \E button \in BatchButtons : BatchDragBezier(t, button, 0, 0, MAX_SEGMENTS, 0, 0)
    \/ BatchExecute(t)
    \/ DeviceDestroy(t)

NextBatch ==
    \/ \E t \in Owners : CallBatch(t)
    \/ \E t \in Owners : BatchAlive(t)
    \/ \E t \in Owners : TypedCheck(t)
    \/ \E t \in Owners : ExecuteCheck(t)
    \/ \E t \in Owners : ExecuteSend(t)
    \/ \E t \in Owners : DisconnectStep(t)
    \/ \E t \in Owners : Leave(t)
    \/ \E m \in Monitors : MonitorStep(m)
    \/ Unplug
    \/ Plug

SpecBatch == InitLive /\ [][NextBatch]_vars

\* ---------------------------------------------------------------------
\* BatchCommandBuilder::execute

\* s is the beginning of q
IsPrefix(s, q) == Len(s) <= Len(q) /\ \A i \in 1 .. Len(s) : s[i] = q[i]

\* C16: what execute() has written is a beginning of the command list, in
\* the order of insertion: nothing is written after a command that failed
\* and nothing written is taken back; it returns true only if every
\* command was written, and returns true if the last one was
C16_ExecuteStopsAtFirstFailure ==
    \A t \in Users :
        op[t] = "execute" =>
            /\ IsPrefix(loc[t].wrote, m_commands)
            /\ pc[t] = "ret" =>
                  /\ loc[t].res => loc[t].wrote = m_commands
                  /\ (loc[t].wrote = m_commands /\ m_commands # << >>) => loc[t].res

\* execute() has returned false after writing the first command of three
C16_Witness ==
    \E t \in Users :
        /\ pc[t] = "ret" /\ op[t] = "execute"
        /\ Len(m_commands) = 3 /\ Len(loc[t].wrote) = 1
        /\ loc[t].res = FALSE
        /\ m_lifetimeToken

\* ---------------------------------------------------------------------
\* The builder after the Device is gone

\* C17: once the lifetime token is false no step adds to the command list
\* and execute() returns false from its first check with nothing written
\* and the device and the port untouched; while the Device is alive,
\* drag(B, 0, 0) for a button B adds exactly press, move, release
C17_BuilderAfterDestroy ==
    [][/\ ~m_lifetimeToken => m_commands' = m_commands
       /\ \A t \in Users :
            (op[t] = "execute" /\ pc[t] = "t_alive" /\ pc'[t] # pc[t] /\ ~m_lifetimeToken) =>
                /\ pc'[t] = "ret"
                /\ loc'[t].res = FALSE
                /\ loc'[t].wrote = << >>
                /\ UNCHANGED <<devVars, portVars>>
       /\ \A t \in Users, button \in MouseButtons :
            (m_lifetimeToken /\ BatchDrag(t, button, 0, 0)) =>
                m_commands' = m_commands \o <<"km." \o ButtonName(button) \o "(1)",
                                              "km.move(0,0)",
                                              "km." \o ButtonName(button) \o "(0)">>]_vars

\* a drag was enqueued while the Device was alive, the Device has been
\* destroyed, and an execute() of the three commands has returned false
\* without writing
C17_Witness ==
    \E t \in Users :
        /\ ~m_lifetimeToken
        /\ m_commands = <<"km.left(1)", "km.move(0,0)", "km.left(0)">>
        /\ pc[t] = "ret" /\ op[t] = "execute"
        /\ loc[t].res = FALSE /\ loc[t].wrote = << >>

(***************************************************************************)
(* The command specification: one thread presses and releases buttons and  *)
(* another locks and unlocks on a connected Device whose link can fail.    *)
(***************************************************************************)
CallCmd(t) ==
    \/ \E button \in ButtonArgs : mouseDown(t, button)
    \/ \E button \in ButtonArgs : mouseUp(t, button)

CallAnyLock(t) ==
    \E target \in LockTargets, lock \in BOOLEAN : LockCall(t, target, lock)

NextCmd ==
    \/ \E t \in Owners : CallCmd(t)
    \/ \E t \in Owners : TypedCheck(t)
    \/ \E t \in Owners : ExecuteCheck(t)
    \/ \E t \in Owners : ExecuteSend(t)
    \/ \E t \in Workers : CallAnyLock(t)
    \/ \E t \in Workers : LockStep(t)
    \/ \E t \in Users : Leave(t)
    \/ Unplug
    \/ Plug

SpecCmd == InitLive /\ [][NextCmd]_vars

\* the suffix of the lock command of a target, X .. SIDE2
LockSuffix(target) == <<"mx", "my", "ml", "mr", "mm", "ms1", "ms2">>[target + 1]

\* C18: mouseDown(B) writes km.<name>(1) and mouseUp(B) writes km.<name>(0)
\* with name left, right, middle, ms1, ms2; the lock method of target T
\* writes km.lock_<suffix>(1) to lock and km.lock_<suffix>(0) to unlock with
\* suffix mx, my, ml, mr, mm, ms1, ms2; nothing else is written, and a call
\* that succeeds has written its command
C18_CommandStrings ==
    \A t \in Users :
        /\ (op[t] \in {"mouseDown", "mouseUp"} /\ loc[t].args.button \in MouseButtons) =>
              LET command == "km." \o ButtonName(loc[t].args.button) \o
                             (IF op[t] = "mouseDown" THEN "(1)" ELSE "(0)")
              IN /\ loc[t].wrote \in {<< >>, <<command>>}
                 /\ (pc[t] = "ret" /\ loc[t].res) => loc[t].wrote = <<command>>
        /\ op[t] = "lockMouse" =>
              LET command == "km.lock_" \o LockSuffix(loc[t].target) \o
                             (IF loc[t].lock THEN "(1)" ELSE "(0)")
              IN /\ loc[t].wrote \in {<< >>, <<command>>}
                 /\ (pc[t] = "ret" /\ loc[t].res) => loc[t].wrote = <<command>>

\* mouseUp(SIDE1) and the unlock of MIDDLE have both returned true
C18_Witness ==
    /\ pc["u1"] = "ret" /\ op["u1"] = "mouseUp" /\ loc["u1"].args.button = 3
    /\ loc["u1"].res = TRUE /\ loc["u1"].wrote = <<"km.ms1(0)">>
    /\ pc["u2"] = "ret" /\ op["u2"] = "lockMouse" /\ loc["u2"].target = 4
    /\ loc["u2"].lock = FALSE
    /\ loc["u2"].res = TRUE /\ loc["u2"].wrote = <<"km.lock_mm(0)">>

(***************************************************************************)
(* The baud specification: one thread calls setBaudRate on a connected     *)
(* Device; the device answers or not, the link can fail and the monitor    *)
(* runs.                                                                   *)
(***************************************************************************)
\* the rates the application asks for: below, at, inside, at and above the
\* bounds of the range
BaudRates == {0, 115199, 115200, 2000000, 4000000, 4000001, 2147483647}

\* what the device answers to km.version(): the word alone, the word
\* inside a longer line, the empty line and another word
BaudTexts == {"km.MAKCU", "vkm.MAKCU 3.2", "", "km.MAKC"}

NextBaud ==
    \/ \E t \in Owners, rate \in BaudRates, validate \in BOOLEAN : BaudCall(t, rate, validate)
    \/ \E t \in Owners : BaudStep(t)
    \/ \E t \in Owners : DisconnectStep(t)
    \/ \E t \in Owners : Leave(t)
    \/ \E m \in Monitors : MonitorStep(m)
    \/ Unplug
    \/ Plug
    \/ \E text \in BaudTexts : DeviceRespond(text)
    \/ \E id \in CmdIds : Expire(id)
    \/ Sweep

SpecBaud == InitLive /\ [][NextBaud]_vars

\* rates whose four bytes are told apart by their position
FrameRates == {0, 1, 255, 256, 65536, 115200, 4000000, 16909060, 2147483647}

\* the nine bytes DE AD 05 00 A5 r0 r1 r2 r3
UpgradeFrame(r) ==
    <<222, 173, 5, 0, 165,
      r % 256, (r \div 256) % 256, (r \div 65536) % 256, r \div 16777216>>

\* C19: the frame of a rate r is the nine bytes DE AD 05 00 A5 r0 r1 r2 r3
\* with r0 = r mod 256 .. r3 = r div 2^24, and every frame setBaudRate
\* has written is that frame of the rate it handed to
\* performBaudRateChange (the clamped rate, or 115200 in the recovery)
C19_UpgradeFrame ==
    /\ \A r \in FrameRates : BaudFrame(r) = UpgradeFrame(r)
    /\ \A t \in Users :
          op[t] = "setBaudRate" =>
              \A i \in DOMAIN loc[t].wrote :
                  Len(loc[t].wrote[i]) = 9 =>
                      loc[t].wrote[i] \in {UpgradeFrame(ClampBaud(loc[t].rate)),
                                           UpgradeFrame(115200)}

\* setBaudRate(2000000) has written the frame DE AD 05 00 A5 80 84 1E 00
C19_Witness ==
    \E t \in Users :
        /\ op[t] = "setBaudRate" /\ loc[t].rate = 2000000
        /\ pc[t] = "b_close"
        /\ loc[t].wrote = << <<222, 173, 5, 0, 165, 128, 132, 30, 0>> >>

\* clamp(r, 115200, 4000000)
Clamped(r) == IF r < 115200 THEN 115200 ELSE IF r > 4000000 THEN 4000000 ELSE r

\* C20: setBaudRate(r) on a connected Device hands clamp(r, 115200,
\* 4000000) to the handshake: the first thing it writes is the upgrade
\* frame of the clamped rate, and the reopen of that handshake opens the
\* port at the clamped rate, which is the rate of the port when the call
\* returns true
C20_ClampedRate ==
    [](\A t \in Users :
          op[t] = "setBaudRate" =>
              /\ (pc[t] \in {"b_write", "b_close", "b_reopen", "b_probe", "b_wait"}
                      /\ ~loc[t].recover) => loc[t].baud = Clamped(loc[t].rate)
              /\ loc[t].wrote # << >> =>
                     loc[t].wrote[1] = UpgradeFrame(Clamped(loc[t].rate))
              /\ (pc[t] = "ret" /\ loc[t].res) =>
                     /\ loc[t].wrote # << >>
                     /\ m_baudRate = Clamped(loc[t].rate))
    /\ [][\A t \in Users :
            (op[t] = "setBaudRate" /\ pc[t] = "b_reopen" /\ ~loc[t].recover
                 /\ pc'[t] # pc[t] /\ m_isOpen') =>
                m_baudRate' = Clamped(loc[t].rate)]_vars

\* setBaudRate(4000001) has returned true with the port at 4000000, and
\* the frame it wrote is DE AD 05 00 A5 00 09 3D 00
C20_Witness ==
    \E t \in Users :
        /\ op[t] = "setBaudRate" /\ loc[t].rate = 4000001
        /\ pc[t] = "ret" /\ loc[t].res = TRUE
        /\ loc[t].wrote[1] = <<222, 173, 5, 0, 165, 0, 9, 61, 0>>
        /\ m_isOpen /\ m_baudRate = 4000000

\* ---------------------------------------------------------------------
\* Failures inside setBaudRate

\* the handshake of thread t (frame write, flush or reopen) fails in this step
HandshakeFails(t) ==
    /\ op[t] = "setBaudRate"
    /\ pc[t] \in {"b_write", "b_reopen"}
    /\ pc'[t] \notin {pc[t], "b_close", "b_probe", "ret"}

\* C21: a failed handshake inside setBaudRate leads into disconnect(), and
\* when that setBaudRate returns it returns false, the Device is in the
\* full disconnected state with no health monitor left, every transition
\* of the live flag has had its callback(false), and the call itself has
\* invoked the callback exactly if it made the transition
C21_HandshakeFailureDisconnects ==
    [][\A t \in Users :
         /\ HandshakeFails(t) => pc'[t] = "d_lock"
         /\ (op[t] = "setBaudRate" /\ pc[t] = "d_notify" /\ pc'[t] = "ret") =>
               /\ loc'[t].res = FALSE
               /\ DisconnectedState'
               /\ monitoringThread' = 0
               /\ hist'.owedFalse = 0
               /\ loc'[t].notified <=> loc[t].shouldNotify]_vars

\* setBaudRate(2000000) has failed to write its frame, has disconnected,
\* invoked callback(false) and returned false
C21_Witness ==
    \E t \in Users :
        /\ op[t] = "setBaudRate" /\ loc[t].rate = 2000000 /\ ~loc[t].recover
        /\ pc[t] = "ret" /\ loc[t].res = FALSE
        /\ loc[t].wrote = << >>
        /\ loc[t].notified
        /\ DisconnectedState

\* the responses that contain km.MAKCU
MakcuTexts == {"km.MAKCU", "vkm.MAKCU 3.2"}

\* the version probe of setBaudRate(r, true) of thread t has its outcome
\* and it is not a response containing km.MAKCU
ValidationFails(t) ==
    /\ op[t] = "setBaudRate"
    /\ pc[t] = "b_wait"
    /\ pc'[t] # pc[t]
    /\ ~(promise[loc[t].future].st = "value" /\ promise[loc[t].future].text \in MakcuTexts)

\* C22: setBaudRate(r, true) returns true only on a response containing
\* km.MAKCU; a failed validation starts the recovery handshake to 115200
\* (or, at 115200 already, disconnects) and the call returns false; a
\* recovery that succeeds leaves the Device connected with the port open
\* at 115200, one that fails leaves it disconnected
C22_ValidationAndRecovery ==
    [][\A t \in Users :
         /\ (op[t] = "setBaudRate" /\ loc[t].validate /\ pc[t] # "ret" /\ pc'[t] = "ret"
                /\ loc'[t].res) =>
               /\ promise[loc[t].future].st = "value"
               /\ promise[loc[t].future].text \in MakcuTexts
         /\ ValidationFails(t) =>
               IF loc[t].baud # 115200
               THEN pc'[t] = "b_write" /\ loc'[t].baud = 115200
               ELSE pc'[t] = "d_lock"
         /\ (op[t] = "setBaudRate" /\ loc[t].recover /\ pc[t] = "b_reopen" /\ pc'[t] = "ret") =>
               /\ loc'[t].res = FALSE
               /\ m_isOpen' /\ m_baudRate' = 115200
               /\ connected' /\ atomicStatus' = "CONNECTED"
         /\ (op[t] = "setBaudRate" /\ loc[t].future # 0 /\ pc[t] = "d_notify"
                /\ pc'[t] = "ret") =>
               /\ loc'[t].res = FALSE
               /\ DisconnectedState']_vars

\* ---------------------------------------------------------------------
\* The lock-state cache

\* C23: the store of a lock call whose command was sent sets the bit of its
\* target to the value asked for and keeps the bit of every other target;
\* when the call returns true the query of its target returns that value;
\* a call that returns false has failed before the update and its steps
\* leave the cache bits and the validity flag as they were
C23_LockCacheUpdate ==
    [][\A t \in Users :
         op[t] = "lockMouse" =>
            /\ (pc[t] = "l_store" /\ pc'[t] = "l_valid") =>
                  /\ Bit(lockStateCache', loc[t].target) = loc[t].lock
                  /\ \A other \in LockTargets \ {loc[t].target} :
                        Bit(lockStateCache', other) = Bit(lockStateCache, other)
            /\ (pc[t] # "ret" /\ pc'[t] = "ret" /\ loc'[t].res) =>
                  /\ lockStateCacheValid'
                  /\ getLockStateFromCache(loc[t].target)' = loc[t].lock
            /\ (pc[t] # "ret" /\ pc'[t] = "ret" /\ ~loc'[t].res) =>
                  /\ pc[t] \in {"l_check", "l_exec", "l_send"}
                  /\ UNCHANGED <<lockStateCache, lockStateCacheValid>>
            /\ (pc[t] \in {"l_check", "l_exec", "l_send"} /\ pc'[t] # pc[t]) =>
                  UNCHANGED <<lockStateCache, lockStateCacheValid>>]_vars

\* the lock of Y has returned true with X locked before it: both read as
\* locked
C23_Witness ==
    \E t \in Users :
        /\ op[t] = "lockMouse" /\ loc[t].target = 1 /\ loc[t].lock
        /\ pc[t] = "ret" /\ loc[t].res = TRUE
        /\ lockStateCache = 3
        /\ getLockStateFromCache(0) /\ getLockStateFromCache(1)

\* C24: with the cache invalid every query returns false and
\* getAllLockStates maps every target to false, whatever the bits are; a
\* Device that was never connected has the cache invalid; disconnect() and
\* the monitor's disconnect handling leave it invalid; and only a lock
\* operation that returns true makes it valid again
C24_CacheInvalidOnDisconnect ==
    /\ [](/\ ~lockStateCacheValid =>
                /\ \A target \in LockTargets : ~getLockStateFromCache(target)
                /\ getAllLockStates = [target \in LockTargets |-> FALSE]
          /\ (~connected /\ deviceInfo.port = NoPort) => ~lockStateCacheValid)
    /\ [][/\ \A t \in Users :
               (pc[t] = "d_notify" /\ pc'[t] = "ret") => ~lockStateCacheValid'
          /\ \A m \in Monitors :
               (mpc[m] = "m_clear" /\ mpc'[m] # mpc[m]) => ~lockStateCacheValid'
          /\ (~lockStateCacheValid /\ lockStateCacheValid') =>
               \E t \in Users :
                   /\ op[t] = "lockMouse" /\ pc[t] # "ret" /\ pc'[t] = "ret"
                   /\ loc'[t].res]_vars

\* disconnect() has returned with X and Y locked in the session it ended:
\* the bits are still there and the queries return false
C24_Witness ==
    \E t \in Users :
        /\ op[t] = "disconnect" /\ pc[t] = "ret"
        /\ DisconnectedState
        /\ lockStateCache = 3
        /\ getAllLockStates = [target \in LockTargets |-> FALSE]

(***************************************************************************)
(* The event specification: the listener thread hands button events to     *)
(* handleButtonEvent while the application registers, replaces and removes *)
(* its button callback.                                                    *)
(***************************************************************************)
NextEvt ==
    \/ \E callback \in Callables : setMouseButtonCallback(callback)
    \/ \E t \in Owners, button \in Buttons, pressed \in BOOLEAN :
          ButtonEventArrive(t, button, pressed)
    \/ \E t \in Owners : ButtonEventApply(t)
    \/ \E t \in Owners : ButtonEventCallback(t)
    \/ \E t \in Owners : Leave(t)

SpecEvt == Init /\ [][NextEvt]_vars

\* C25: the event (N, pressed) for N in 0..4 sets bit N of the mask when
\* pressed and clears it when released and keeps every other bit; the
\* callback is not invoked before the mask update; the handler then
\* invokes the registered callback exactly once, with (N, pressed) and
\* with the mask as updated, and invokes nothing when no callback is
\* registered or N is 5 or more
C25_ButtonEventThenCallback ==
    /\ [](\A t \in Users :
             (op[t] = "handleButtonEvent" /\ pc[t] = "h_rmw") => loc[t].called = << >>)
    /\ [][\A t \in Users :
            op[t] = "handleButtonEvent" =>
               /\ (pc[t] = "h_rmw" /\ pc'[t] # pc[t] /\ loc[t].button \in 0 .. 4) =>
                     /\ Bit(currentButtonMask', loc[t].button) = loc[t].pressed
                     /\ \A other \in (0 .. 7) \ {loc[t].button} :
                           Bit(currentButtonMask', other) = Bit(currentButtonMask, other)
               /\ (pc[t] = "h_cb" /\ pc'[t] # pc[t]) =>
                     /\ pc'[t] = "ret"
                     /\ currentButtonMask' = currentButtonMask
                     /\ loc'[t].called =
                           IF loc[t].button \in 0 .. 4 /\ mouseButtonCallback # nullptr
                           THEN << <<loc[t].button, loc[t].pressed>> >>
                           ELSE << >>]_vars

\* the event (RIGHT, pressed) on an empty mask: the mask is 0x02 and the
\* callback has been invoked once with (RIGHT, true)
C25_Witness ==
    \E t \in Users :
        /\ op[t] = "handleButtonEvent" /\ pc[t] = "ret"
        /\ loc[t].button = 1 /\ loc[t].pressed
        /\ currentButtonMask = 2
        /\ mouseButtonCallback = "returns"
        /\ loc[t].called = << <<1, TRUE>> >>

(***************************************************************************)
(* The callback specification: on a connected Device the application       *)
(* registers a connection callback that returns at once or one that calls  *)
(* getDeviceInfo(), and calls disconnect(); the device can be removed and  *)
(* the monitor runs.                                                       *)
(***************************************************************************)
\* the connection callbacks the application registers
Reentrant == {"returns", "getDeviceInfo"}

NextCb ==
    \/ \E callback \in Reentrant : setConnectionCallback(callback)
    \/ \E t \in Owners : DisconnectCall(t)
    \/ \E t \in Owners : DisconnectStep(t)
    \/ \E t \in Owners : CallbackLock(t)
    \/ \E t \in Owners : CallbackUnlock(t)
    \/ \E t \in Owners : Leave(t)
    \/ \E m \in Monitors : MonitorStep(m)
    \/ \E m \in Monitors : MonitorCallbackLock(m)
    \/ \E m \in Monitors : MonitorCallbackUnlock(m)
    \/ Unplug
    \/ Plug

SpecCb == InitLive /\ [][NextCb]_vars

\* thread t is inside disconnect(), holds Impl::mutex and waits in join()
\* for the monitor, whose callback waits for Impl::mutex: neither can take
\* another step
Deadlocked(t, m) ==
    /\ pc[t] = "d_join" /\ mutex = t
    /\ monitoringThread = m
    /\ mpc[m] = "m_cb_lock"

\* C26: a connection callback that calls back into the Device never
\* blocks the library: the monitor executing the callback and a thread
\* inside disconnect() waiting for the monitor never wait for each other
C26_CallbackCannotDeadlock ==
    \A t \in Users, m \in Monitors : ~Deadlocked(t, m)

(***************************************************************************)
(* The exception specification: the application registers callbacks that   *)
(* return or throw, connects and disconnects; the listener hands button    *)
(* events to the handler; the device can be removed and the monitor runs.  *)
(***************************************************************************)
\* the callbacks the application registers
Throwing == {"returns", "throws"}

NextThrow ==
    \/ \E callback \in Throwing : setConnectionCallback(callback)
    \/ \E callback \in Throwing : setMouseButtonCallback(callback)
    \/ \E t \in Owners : ConnectCall(t, DevPort)
    \/ \E t \in Owners : ConnectStep(t)
    \/ \E t \in Owners : DisconnectCall(t)
    \/ \E t \in Owners : DisconnectStep(t)
    \/ \E t \in Workers, button \in LifeButtons, pressed \in BOOLEAN :
          ButtonEventArrive(t, button, pressed)
    \/ \E t \in Workers : ButtonEventApply(t)
    \/ \E t \in Workers : ButtonEventCallback(t)
    \/ \E t \in Users : Leave(t)
    \/ \E m \in Monitors : MonitorStep(m)
    \/ LinkStep

SpecThrow == InitLive /\ [][NextThrow]_vars

\* C27: an exception of a user callback never leaves the library: no
\* thread is unwound and no monitor thread is aborted by one, and the
\* step that invokes the callback ends as with a callback that returns:
\* connect() returns true, disconnect() returns, the monitor thread
\* finishes, the button handler returns with the mask update kept, and
\* nothing else of the Device or the port changes
C27_CallbackExceptionsIgnored ==
    /\ [](/\ \A t \in Users : pc[t] # "unwound"
          /\ \A m \in Monitors : mpc[m] # "aborted")
    /\ [][/\ \A t \in Users :
               (pc[t] \in {"c_notify", "d_notify", "h_cb"} /\ pc'[t] # pc[t]) =>
                   /\ pc'[t] = "ret"
                   /\ pc[t] = "c_notify" => loc'[t].res = TRUE
                   /\ UNCHANGED <<devVars, mutex, monVars, portVars>>
          /\ \A m \in Monitors :
               (mpc[m] = "m_notify" /\ mpc'[m] # mpc[m]) =>
                   /\ mpc'[m] = "done"
                   /\ UNCHANGED <<devVars, mutex, portVars, thrVars>>]_vars

\* connect() has returned true after invoking a connection callback that
\* throws, and the button handler has returned from a button callback that
\* throws with the bit of its button set
C27_Witness ==
    /\ connectionCallback = "throws" /\ mouseButtonCallback = "throws"
    /\ pc["u1"] = "ret" /\ op["u1"] = "connect"
    /\ loc["u1"].res = TRUE /\ loc["u1"].notified
    /\ connected /\ atomicStatus = "CONNECTED"
    /\ pc["u2"] = "ret" /\ op["u2"] = "handleButtonEvent"
    /\ loc["u2"].called = << <<1, TRUE>> >>
    /\ currentButtonMask = 2

(***************************************************************************)
(* The version specification: one thread calls getVersion() on a connected *)
(* Device; the device answers with a text, with an empty line or not at    *)
(* all, deadlines elapse, the device can be removed and the monitor runs.  *)
(***************************************************************************)
\* calls of getVersion() in one behaviour
MaxVersionCalls == 1
\* the id of the probe of connect(), then three per call
VersionIds == 1 .. (1 + VersionAttempts * MaxVersionCalls)
\* what the device answers to km.version()
VersionTexts == {"km.MAKCU", ""}

InitVer == LiveWith(VersionIds)

\* the call is made while the port has ids for its three attempts
CallVersion(t) ==
    /\ m_commandCounter + VersionAttempts \in VersionIds
    /\ getVersion(t)

NextVer ==
    \/ \E t \in Owners : CallVersion(t)
    \/ \E t \in Owners : TypedCheck(t)
    \/ \E t \in Owners : TrackedSend(t)
    \/ \E t \in Owners : TrackedWait(t)
    \/ \E t \in Owners : Leave(t)
    \/ \E m \in Monitors : MonitorStep(m)
    \/ \E text \in VersionTexts : DeviceRespond(text)
    \/ \E id \in VersionIds : Expire(id)
    \/ Sweep
    \/ Unplug
    \/ Plug

\* the thread of the call is scheduled, deadlines elapse and the listener
\* sweeps the commands that timed out
SpecVer ==
    /\ InitVer
    /\ [][NextVer]_vars
    /\ \A t \in Owners : WF_vars(TypedCheck(t) \/ TrackedSend(t) \/ TrackedWait(t))
    /\ \A id \in VersionIds : WF_vars(Expire(id))
    /\ WF_vars(Sweep)

\* C28: getVersion() makes at most three attempts, each one tracked
\* km.version() request made after the outcome of the one before; a
\* non-empty response is returned at once; a failed, timed out or empty
\* attempt is followed by the next one while the Device is live and fewer
\* than three were made, and by the return of "" otherwise; the result is
\* "" or the response the last attempt received; and every call returns
C28_GetVersion ==
    /\ [](\A t \in Users :
             op[t] = "getVersion" =>
                /\ loc[t].attempt <= 3
                /\ Len(loc[t].wrote) <= loc[t].attempt
                /\ \A i \in DOMAIN loc[t].wrote : loc[t].wrote[i] = "km.version()"
                /\ pc[t] = "t_send" => loc[t].attempt < 3
                /\ (pc[t] = "ret" /\ loc[t].res # "") =>
                      /\ loc[t].attempt \in 1 .. 3
                      /\ promise[loc[t].future].st = "value"
                      /\ promise[loc[t].future].text = loc[t].res)
    /\ [][\A t \in Users :
            (op[t] = "getVersion" /\ pc[t] = "t_wait" /\ pc'[t] # pc[t]) =>
               LET f == promise[loc[t].future] IN
               IF f.st = "value" /\ f.text # ""
               THEN pc'[t] = "ret" /\ loc'[t].res = f.text
               ELSE IF connected /\ loc[t].attempt < 3
               THEN pc'[t] = "t_send"
               ELSE pc'[t] = "ret" /\ loc'[t].res = ""]_vars
    /\ \A t \in Users : (op[t] = "getVersion") ~> (pc[t] = "ret")

\* getVersion() has returned the response of its third attempt, the first
\* two having failed
C28_Witness ==
    \E t \in Users :
        /\ op[t] = "getVersion" /\ pc[t] = "ret"
        /\ loc[t].attempt = 3
        /\ loc[t].res = "km.MAKCU"
        /\ loc[t].wrote = <<"km.version()", "km.version()", "km.version()">>

(***************************************************************************)
(* catch_mouse_<button>(): the five counters are read on a live device     *)
(* whose answers are the texts below, while the device may be unplugged    *)
(* and the deadline of a request may elapse.                               *)
(***************************************************************************)
\* answers of the device: decimal bytes, numbers out of range, numbers with
\* leading zeros or a sign, trailing garbage, nothing, a number that does
\* not fit an int
CatchTexts == {"7", "255", "256", "007", "-0", "-7", "+7", "7x", "", "2147483648"}

NextCatch ==
    \/ \E t \in Owners, name \in CatchOps : catchMouse(t, name)
    \/ \E t \in Owners : TypedCheck(t)
    \/ \E t \in Owners : TrackedSend(t)
    \/ \E t \in Owners : TrackedWait(t)
    \/ \E t \in Owners : Leave(t)
    \/ \E m \in Monitors : MonitorStep(m)
    \/ \E text \in CatchTexts : DeviceRespond(text)
    \/ \E id \in CmdIds : Expire(id)
    \/ Sweep
    \/ Unplug
    \/ Plug

SpecCatch == InitLive /\ [][NextCatch]_vars

RECURSIVE StripZeros(_)
\* a text without its leading zeros (the last character stays)
StripZeros(text) ==
    IF Len(text) > 1 /\ Head(text) = "0" THEN StripZeros(Tail(text)) ELSE text

\* text is a decimal integer of value n >= 0: digits only, or zero with a
\* minus sign
DecimalTextOf(n, text) ==
    \/ StripZeros(text) = NatToString(n)
    \/ n = 0 /\ Len(text) > 1 /\ Head(text) = "-" /\ StripZeros(Tail(text)) = "0"

\* the <b> of km.catch_<b>()
CatchSuffix(name) ==
    CASE name = "catchMouseLeft" -> "ml"
      [] name = "catchMouseMiddle" -> "mm"
      [] name = "catchMouseRight" -> "mr"
      [] name = "catchMouseSide1" -> "ms1"
      [] name = "catchMouseSide2" -> "ms2"

\* C29: catch_mouse_<button>() writes nothing but its one km.catch_<b>()
\* request; it returns n when the response to the request is a value whose
\* text is entirely the decimal integer n, 0 <= n <= 255, and returns 0 in
\* every other case (text that is no decimal integer, value out of range,
\* timeout, request error, device not connected)
C29_CatchMouseParse ==
    /\ [](\A t \in Users : op[t] \in CatchOps =>
             /\ Len(loc[t].wrote) <= 1
             /\ \A i \in DOMAIN loc[t].wrote :
                   loc[t].wrote[i] = "km.catch_" \o CatchSuffix(op[t]) \o "()")
    /\ [][\A t \in Users :
            (op[t] \in CatchOps /\ pc[t] # "ret" /\ pc'[t] = "ret") =>
               LET f == IF pc[t] = "t_wait" THEN promise[loc[t].future] ELSE NoValue IN
               IF f.st = "value" /\ \E n \in 0 .. 255 : DecimalTextOf(n, f.text)
               THEN /\ loc'[t].res \in 0 .. 255
                    /\ DecimalTextOf(loc'[t].res, f.text)
               ELSE loc'[t].res = 0]_vars

\* a counter answered "255" and the call returned 255
C29_Witness ==
    \E t \in Users :
        /\ op[t] \in CatchOps
        /\ pc[t] = "ret"
        /\ loc[t].wrote # << >>
        /\ promise[loc[t].future] = Value(loc[t].future, "255")
        /\ loc[t].res = 255

(***************************************************************************)
(* setMouseSerial: the serial is any short sequence of the bytes below,    *)
(* set on a live device that may be unplugged at any moment.               *)
(***************************************************************************)
MaxSerialLen == 2
\* NUL, TAB, LF, CR, the quote, A, the backslash, n, DEL and a byte above
\* 0x7F
SerialBytes == {0, 9, 10, 13, 39, 65, 92, 110, 127, 128}
SerialInputs == UNION {[1 .. n -> SerialBytes] : n \in 0 .. MaxSerialLen}

NextSerial ==
    \/ \E t \in Owners, serial \in SerialInputs : setMouseSerial(t, serial)
    \/ \E t \in Owners : TypedCheck(t)
    \/ \E t \in Owners : ExecuteCheck(t)
    \/ \E t \in Owners : ExecuteSend(t)
    \/ \E t \in Owners : Leave(t)
    \/ \E m \in Monitors : MonitorStep(m)
    \/ Unplug
    \/ Plug

SpecSerial == InitLive /\ [][NextSerial]_vars

\* the two upper-case hexadecimal digits of a byte, as ASCII codes
UpperHex(k) == IF k < 10 THEN 48 + k ELSE 55 + k

\* the escape of one byte as the contract words it: backslash (92) and
\* quote (39) get a backslash, LF, CR, TAB become \n, \r, \t, any other
\* control byte (below 0x20, or 0x7F) becomes \xHH, the rest is copied
EscapedByte(b) ==
    CASE b = 92 -> <<92, 92>>
      [] b = 39 -> <<92, 39>>
      [] b = 10 -> <<92, 110>>
      [] b = 13 -> <<92, 114>>
      [] b = 9 -> <<92, 116>>
      [] OTHER -> IF b < 32 \/ b = 127
                  THEN <<92, 120, UpperHex(b \div 16), UpperHex(b % 16)>>
                  ELSE <<b>>

RECURSIVE Escaped(_)
Escaped(s) == IF s = << >> THEN << >> ELSE EscapedByte(Head(s)) \o Escaped(Tail(s))

\* the value of an upper-case hexadecimal digit, -1 for another byte
HexValue(c) ==
    IF c \in 48 .. 57 THEN c - 48 ELSE IF c \in 65 .. 70 THEN c - 55 ELSE 0 - 1

RECURSIVE Unescape(_)
\* reads a quoted argument back; <<-1>> marks an argument that is not well
\* formed: a quote, LF or CR that is not escaped, or a broken escape
Unescape(e) ==
    IF e = << >> THEN << >>
    ELSE IF Head(e) \in {39, 10, 13} THEN <<0 - 1>>
    ELSE IF Head(e) # 92 THEN <<Head(e)>> \o Unescape(Tail(e))
    ELSE IF Len(e) < 2 THEN <<0 - 1>>
    ELSE IF e[2] \in {92, 39} THEN <<e[2]>> \o Unescape(SubSeq(e, 3, Len(e)))
    ELSE IF e[2] = 110 THEN <<10>> \o Unescape(SubSeq(e, 3, Len(e)))
    ELSE IF e[2] = 114 THEN <<13>> \o Unescape(SubSeq(e, 3, Len(e)))
    ELSE IF e[2] = 116 THEN <<9>> \o Unescape(SubSeq(e, 3, Len(e)))
    ELSE IF e[2] = 120 /\ Len(e) >= 4 /\ HexValue(e[3]) >= 0 /\ HexValue(e[4]) >= 0
    THEN <<16 * HexValue(e[3]) + HexValue(e[4])>> \o Unescape(SubSeq(e, 5, Len(e)))
    ELSE <<0 - 1>>

\* km.serial(' and ') in ASCII
SerialOpen == <<107, 109, 46, 115, 101, 114, 105, 97, 108, 40, 39>>
SerialClose == <<39, 41>>

\* C30: setMouseSerial(s) emits nothing but km.serial('<e>') with e the
\* escape of s (backslash and quote backslash-escaped, LF/CR/TAB as \n \r
\* \t, other control bytes as \xHH in upper case, the rest unchanged); the
\* command holds no raw LF or CR, the argument no unescaped quote, and s
\* can be read back from e, so distinct serials give distinct commands; it
\* returns true exactly when the command was written
C30_SerialEscaping ==
    \A t \in Users :
        op[t] = "setMouseSerial" =>
            /\ Len(loc[t].wrote) <= 1
            /\ \A i \in DOMAIN loc[t].wrote :
                  LET command == loc[t].wrote[i]
                      e == SubSeq(command, Len(SerialOpen) + 1, Len(command) - Len(SerialClose))
                  IN  /\ command = SerialOpen \o Escaped(loc[t].args.serial) \o SerialClose
                      /\ \A k \in DOMAIN command : command[k] \notin {10, 13}
                      /\ Unescape(e) = loc[t].args.serial
            /\ pc[t] = "ret" => (loc[t].res <=> loc[t].wrote # << >>)

\* the serial <quote, DEL> was written as km.serial('\'\x7F')
C30_Witness ==
    \E t \in Users :
        /\ op[t] = "setMouseSerial"
        /\ pc[t] = "ret"
        /\ loc[t].res
        /\ loc[t].args.serial = <<39, 127>>
        /\ loc[t].wrote = <<SerialOpen \o <<92, 39, 92, 120, 55, 70>> \o SerialClose>>

(***************************************************************************)
(* connect() and disconnect() of one application thread, with the health   *)
(* monitor and the device.                                                 *)
(***************************************************************************)
NextConn ==
    \/ \E t \in Owners : CallLifecycle(t)
    \/ \E t \in Owners : ConnectStep(t)
    \/ \E t \in Owners : DisconnectStep(t)
    \/ \E t \in Owners : Leave(t)
    \/ \E m \in Monitors : MonitorStep(m)
    \/ LinkStep

SpecConn == Init /\ [][NextConn]_vars

\* what a successful connect() writes, in order: the frame DE AD 05 00 A5
\* with 4000000 in little-endian bytes, km.buttons(1), km.version()
ConnectWrites == << <<222, 173, 5, 0, 165, 0, 9, 61, 0>>, "km.buttons(1)", "km.version()" >>

\* thread t is in a connect() that found the device not connected
Connecting(t) == op[t] = "connect" /\ pc[t] \notin {"c_lock", "c_check", "idle"}

\* C31: connect() writes the frame for 4000000 on the port opened at
\* 115200, then closes and reopens at 4000000, sends km.buttons(1) and a
\* tracked km.version() on the reopened port, in this order; the handshake
\* goes on iff the reopen succeeded; status CONNECTED and the live flag are
\* set only after the probe has a value; the monitor is started only
\* with the live flag set, callback(true) is invoked only with the monitor
\* started, and a connect that got that far returns true
C31_ConnectSequence ==
    /\ [](\A t \in Users : Connecting(t) =>
             /\ Len(loc[t].wrote) <= 3
             /\ \A i \in DOMAIN loc[t].wrote : loc[t].wrote[i] = ConnectWrites[i])
    /\ [][\A t \in Users : Connecting(t) =>
             /\ (Len(loc'[t].wrote) = 1 /\ loc[t].wrote = << >>) =>
                   m_isOpen /\ m_baudRate = 115200
             /\ Len(loc'[t].wrote) > Len(loc[t].wrote) /\ loc[t].wrote # << >> =>
                   m_isOpen /\ m_baudRate = 4000000
             /\ (pc[t] = "c_baud_reopen" /\ pc'[t] # pc[t]) =>
                   /\ ~m_isOpen
                   /\ IF m_isOpen' THEN pc'[t] = "c_validate" /\ m_baudRate' = 4000000
                                   ELSE pc'[t] = "c_fail"
             /\ (pc[t] = "c_validate" /\ pc'[t] = "c_init") => m_isOpen /\ devicePresent]_vars
    /\ [][(atomicStatus' = "CONNECTED" /\ atomicStatus # "CONNECTED") =>
             \E t \in Users :
                /\ Connecting(t)
                /\ loc[t].wrote = ConnectWrites
                /\ promise[loc[t].future].st = "value"
                /\ ~connected]_vars
    /\ [][(connected' /\ ~connected) =>
             \E t \in Users :
                /\ Connecting(t)
                /\ loc[t].wrote = ConnectWrites
                /\ promise[loc[t].future].st = "value"
                /\ loc[t].newMon = 0]_vars
    /\ [][\A m \in Monitors : (mpc[m] = "unborn" /\ mpc'[m] # "unborn") =>
             connected /\ \E t \in Users : Connecting(t) /\ loc[t].wrote = ConnectWrites]_vars
    /\ [][\A t \in Users : (op[t] = "connect" /\ loc'[t].notified /\ ~loc[t].notified) =>
             /\ monitoringThread # 0
             /\ mpc[monitoringThread] # "unborn"
             /\ loc'[t].res = TRUE]_vars

\* connect() has returned true after the whole sequence and the callback
C31_Witness ==
    \E t \in Users :
        /\ op[t] = "connect"
        /\ pc[t] = "ret"
        /\ loc[t].res = TRUE
        /\ loc[t].notified
        /\ loc[t].wrote = ConnectWrites
        /\ connected
        /\ monitoringThread # 0

(***************************************************************************)
(* disconnect() called by the application and by the connection callback   *)
(* on the monitor thread: the callable either returns or disconnects when  *)
(* the connection is lost.                                                 *)
(***************************************************************************)
Detaching == {"returns", "disconnect"}

\* the monitor thread m inside the disconnect() of its callable
MonitorDisconnectStep(m) ==
    \/ MonitorDisconnectLock(m)
    \/ MonitorDisconnectCleanup(m)
    \/ MonitorDisconnectCas(m)
    \/ MonitorDisconnectStatus(m)
    \/ MonitorDisconnectClose(m)
    \/ MonitorDisconnectClear(m)
    \/ MonitorCallbackReturn(m)

NextDetach ==
    \/ \E callback \in Detaching : setConnectionCallback(callback)
    \/ \E t \in Owners : DisconnectCall(t)
    \/ \E t \in Owners : DisconnectStep(t)
    \/ \E t \in Owners : Leave(t)
    \/ \E m \in Monitors : MonitorStep(m)
    \/ \E m \in Monitors : MonitorDisconnectStep(m)
    \/ Unplug
    \/ Plug

\* every thread that can take a step is scheduled, and the poll interval
\* of the monitor elapses
SpecDetach ==
    /\ InitLive
    /\ [][NextDetach]_vars
    /\ \A t \in Owners : WF_vars(DisconnectStep(t))
    /\ \A m \in Monitors : WF_vars(MonitorStep(m) \/ MonitorDisconnectStep(m))

\* the labels of disconnect() behind cleanupMonitoringThread()
AfterCleanup == {"d_cas", "d_status", "d_close", "d_clear", "d_notify", "ret"}

\* C32: a disconnect() of an application thread is past
\* cleanupMonitoringThread() only with the monitor thread terminated, so
\* the monitor changes nothing and calls nothing after disconnect() has
\* returned; a disconnect() inside the monitor's callable detaches the
\* handle instead of joining; every disconnect() returns and the monitor
\* loop exits once a disconnect() was called
C32_DisconnectStopsMonitor ==
    /\ [](\A t \in Users :
             (op[t] = "disconnect" /\ pc[t] \in AfterCleanup) =>
                 \A m \in Monitors : mpc[m] \in {"unborn", "done"})
    /\ [][\A m \in Monitors :
             (mpc[m] = "m_d_cleanup" /\ mpc'[m] # mpc[m]) =>
                 /\ mpc'[m] = "m_d_cas"
                 /\ monitoringThread' = 0
                 /\ stopRequested'[m]]_vars
    /\ \A t \in Users : (op[t] = "disconnect") ~> (pc[t] = "ret")
    /\ \A m \in Monitors : (mpc[m] = "m_d_lock") ~> (mpc[m] = "done")
    /\ (\E t \in Users : op[t] = "disconnect") ~> (\A m \in Monitors : mpc[m] \in {"unborn", "done"})

\* ---------------------------------------------------------------------
\* the arguments of the commands written by execute()

\* text begins with head
StartsWith(text, head) == Len(text) >= Len(head) /\ SubSeq(text, 1, Len(head)) = head

RECURSIVE ArgsFrom(_, _)
\* the decimal arguments of a command from position start on, up to the
\* closing parenthesis
ArgsFrom(text, start) ==
    IF start > Len(text) THEN << >>
    ELSE LET r == from_chars(SubSeq(text, start, Len(text))) IN
         IF r.ec # "ok" THEN << >>
         ELSE <<r.value>> \o ArgsFrom(text, start + r.ptr)

\* the arguments of km.move(...) or km.wheel(...)
CommandArgs(text) ==
    IF StartsWith(text, "km.move(") THEN ArgsFrom(text, Len("km.move(") + 1)
    ELSE IF StartsWith(text, "km.wheel(") THEN ArgsFrom(text, Len("km.wheel(") + 1)
    ELSE << >>

\* a coordinate, control offset or wheel delta fits 16 signed bits
Signed16(v) == v >= 0 - 32768 /\ v <= 32767

\* C33: every km.move(...) and km.wheel(...) that execute() of a
\* BatchCommandBuilder has written carries coordinates, control offsets and
\* a wheel delta within [-32768, 32767] and at most 1000 segments
C33_BatchArgumentsInRange ==
    \A t \in Users :
        op[t] = "execute" =>
            \A i \in DOMAIN loc[t].wrote :
                LET a == CommandArgs(loc[t].wrote[i]) IN
                \A k \in DOMAIN a : IF k = 3 THEN a[k] <= 1000 ELSE Signed16(a[k])

(***************************************************************************)
(* setBaudRate beside the running monitor with the device never removed    *)
(***************************************************************************)
NextSteady ==
    \/ \E t \in Owners, rate \in BaudRates, validate \in BOOLEAN : BaudCall(t, rate, validate)
    \/ \E t \in Owners : BaudStep(t)
    \/ \E t \in Owners : DisconnectStep(t)
    \/ \E t \in Owners : Leave(t)
    \/ \E m \in Monitors : MonitorStep(m)
    \/ \E text \in BaudTexts : DeviceRespond(text)
    \/ \E id \in CmdIds : Expire(id)
    \/ Sweep

SpecSteady == InitLive /\ [][NextSteady]_vars

\* C34: with the device never removed, a setBaudRate that returns true
\* leaves the Device connected with status CONNECTED, the monitor never
\* takes a probe for a loss while the device is present, and nothing but a
\* disconnect() of a failed setBaudRate turns connected from true to false
C34_BaudChangeKeepsConnection ==
    /\ [](\A t \in Users :
            (op[t] = "setBaudRate" /\ pc[t] = "ret" /\ loc[t].res = TRUE) =>
                connected /\ atomicStatus = "CONNECTED")
    /\ [][\A m \in Monitors :
            (mpc[m] = "m_probe" /\ mpc'[m] = "m_cas") => ~devicePresent]_vars
    /\ [][(connected /\ ~connected') =>
            \E t \in Users : pc[t] = "d_cas" /\ pc'[t] # pc[t]]_vars

\* connect() has started its monitor and not yet called
\* notifyConnectionChange(true) (lines 690-703)
BeforeNotify == {"c_swap", "c_join", "c_unlock", "c_notify"}

\* C35: the monitor of a session never delivers callback(false) while the
\* connect() that started it has not yet delivered callback(true)
C35_TrueBeforeFalse ==
    [][\A m \in Monitors :
         (mpc[m] = "m_notify" /\ mpc'[m] # mpc[m] /\ connectionCallback # nullptr) =>
             \A t \in Users :
                 ~(op[t] = "connect" /\ loc[t].newMon = m /\ pc[t] \in BeforeNotify)]_vars

(***************************************************************************)
(* Two application threads lock and unlock different targets               *)
(***************************************************************************)
\* the target that thread t locks and unlocks: X for u1, Y for u2
TargetOf(t) == IF t = "u1" THEN 0 ELSE 1

NextLocks ==
    \/ \E t \in Users, lock \in BOOLEAN : LockCall(t, TargetOf(t), lock)
    \/ \E t \in Users : LockStep(t)
    \/ \E t \in Users : Leave(t)
    \/ Unplug
    \/ Plug

SpecLocks == InitLive /\ [][NextLocks]_vars

\* C36: when a lock call on a target has returned true, and no later call
\* on that target is under way, the cache holds the value that call wrote
\* for its target, whatever the calls on the other target do
C36_NoLostLockUpdate ==
    \A t \in Users :
        (op[t] = "lockMouse" /\ pc[t] = "ret" /\ loc[t].res = TRUE) =>
            (Bit(lockStateCache, loc[t].target) <=> loc[t].lock)

(***************************************************************************)
(* Locks in one session, disconnect(), connect(), locks in the next        *)
(***************************************************************************)
\* X is locked while the cache is fresh
LockFreshCall(t) ==
    /\ lockStateCache = 0 /\ ~lockStateCacheValid
    /\ LockCall(t, 0, TRUE)

\* Y is locked or unlocked while the cache is invalid, which after a lock
\* of X only the end of the session has made it
LockInvalidCall(t, lock) ==
    /\ ~lockStateCacheValid
    /\ LockCall(t, 1, lock)

NextRelock ==
    \/ \E t \in Owners : LockFreshCall(t)
    \/ \E t \in Owners, lock \in BOOLEAN : LockInvalidCall(t, lock)
    \/ \E t \in Owners : LockStep(t)
    \/ \E t \in Owners : ConnectCall(t, DevPort)
    \/ \E t \in Owners : DisconnectCall(t)
    \/ \E t \in Owners : ConnectStep(t)
    \/ \E t \in Owners : DisconnectStep(t)
    \/ \E t \in Owners : Leave(t)
    \/ \E m \in Monitors : MonitorStep(m)
    \/ LinkStep

SpecRelock == InitLive /\ [][NextRelock]_vars

\* C37: X is locked only in a session whose cache is fresh and Y only
\* while the cache is invalid, so that a successful lock operation on Y
\* follows no lock of X in its own session: X then reads as unlocked
C37_NoStaleLockBits ==
    \A t \in Users :
        (op[t] = "lockMouse" /\ loc[t].target = 1 /\ pc[t] = "ret" /\ loc[t].res = TRUE) =>
            ~getLockStateFromCache(0)

\* no operation and no monitor is under way
AtRest ==
    /\ \A t \in Users : pc[t] \in {"idle", "ret"}
    /\ \A m \in Monitors : mpc[m] \in {"unborn", "done"}

\* C38: when the monitor that won the compare-exchange delivers
\* callback(false) the port is closed as disconnect() leaves it, and at
\* rest a Device reported disconnected holds no open handle and takes no
\* button event into the mask
C38_MonitorLossClosesPort ==
    /\ [][\A m \in Monitors :
            (mpc[m] = "m_notify" /\ mpc'[m] # mpc[m]) => ~m_isOpen']_vars
    /\ []((AtRest /\ ~connected /\ atomicStatus = "DISCONNECTED") => ~m_isOpen)
    /\ [][(AtRest /\ ~connected /\ atomicStatus = "DISCONNECTED") =>
            currentButtonMask' = currentButtonMask]_vars

(***************************************************************************)
(* Two application threads call connect() and connectAsync() on a Device   *)
(* that was never connected; the device may be removed and stays away      *)
(***************************************************************************)
\* the steps of connect() when no earlier monitor is to be joined
ConnectFirstStep(t) ==
    \/ ConnectLock(t)
    \/ ConnectCheck(t)
    \/ ConnectOpen(t)
    \/ ConnectBaudWrite(t)
    \/ ConnectBaudClose(t)
    \/ ConnectBaudReopen(t)
    \/ ConnectValidate(t)
    \/ ConnectInit(t)
    \/ ConnectProbe(t)
    \/ ConnectWait(t)
    \/ ConnectFail(t)
    \/ ConnectPublish(t)
    \/ ConnectLive(t)
    \/ ConnectThread(t)
    \/ ConnectSwap(t)
    \/ ConnectThreadFail(t)
    \/ ConnectUnlock(t)
    \/ ConnectNotify(t)

NextPair ==
    \/ \E t \in Users, port \in {NoPort, DevPort} : ConnectCall(t, port)
    \/ \E t \in Users : CallAsync(t)
    \/ \E t \in Users : ConnectAsyncCheck(t)
    \/ \E t \in Users : ConnectFirstStep(t)
    \/ \E t \in Users : Leave(t)
    \/ \E m \in Monitors : MonitorStep(m)
    \/ Unplug
    \/ \E text \in Texts : DeviceRespond(text)
    \/ \E id \in CmdIds : Expire(id)
    \/ Sweep

SpecPair == Init /\ [][NextPair]_vars

\* between the lock of line 603 and its release
InsideConnect == {"c_check", "c_open", "c_baud_write", "c_baud_close", "c_baud_reopen",
                  "c_validate", "c_init", "c_probe", "c_wait", "c_fail", "c_publish",
                  "c_live", "c_thread", "c_swap", "c_join", "c_thread_fail", "c_unlock"}

\* the monitors that have been started
Born == {m \in Monitors : mpc[m] # "unborn"}

\* C39: the body of connect() runs under the mutex, so in one thread at a
\* time; a connect() or connectAsync() that finds the Device connected
\* returns true and touches neither the port nor the monitor nor the
\* callback; connected is set only while no monitor was ever started, at
\* most one monitor is ever started (exactly one once a successful
\* connect() has passed line 690), and callback(true) is delivered only by
\* the call that started it, with no other callback(true) owed
C39_ConnectSerialized ==
    /\ [](\A t \in Users : pc[t] \in InsideConnect => mutex = t)
    /\ [][\A t \in Users :
            (pc[t] \in {"c_check", "a_check"} /\ connected /\ pc'[t] # pc[t]) =>
                /\ pc'[t] = "ret" /\ loc'[t].res = TRUE
                /\ ~loc'[t].notified /\ loc'[t].wrote = << >>
                /\ UNCHANGED <<portVars, monVars, devVars, hist>>]_vars
    /\ [][\A t \in Users : (pc[t] = "c_live" /\ pc'[t] # pc[t]) =>
            ~connected /\ Born = {} /\ hist.owedTrue = 0]_vars
    /\ [](Cardinality(Born) <= 1 /\ hist.owedTrue <= 1)
    /\ [](\A t \in Users :
            (op[t] = "connect" /\ pc[t] \in {"c_unlock", "c_notify"}) =>
                Born = {loc[t].newMon} /\ monitoringThread = loc[t].newMon)
    /\ [][\A t \in Users : (pc[t] = "c_notify" /\ pc'[t] # pc[t]) =>
            /\ loc'[t].notified /\ loc'[t].res = TRUE
            /\ hist.owedTrue = 1 /\ hist'.owedTrue = 0
            /\ \A other \in Users \ {t} : ~loc[other].notified]_vars

\* both calls have returned true: one ran the sequence and delivered
\* callback(true), the other did nothing, and one monitor runs
C39_Witness ==
    /\ \A t \in Users : op[t] \in {"connect", "connectAsync"} /\ pc[t] = "ret" /\ loc[t].res = TRUE
    /\ \E t \in Users :
         /\ loc[t].notified /\ loc[t].wrote = ConnectWrites
         /\ \A other \in Users \ {t} : ~loc[other].notified /\ loc[other].wrote = << >>
    /\ Cardinality(Born) = 1 /\ connected

(***************************************************************************)
(* HumanPatterns::scrollHumanLike on a connected Device whose link can     *)
(* fail                                                                    *)
(***************************************************************************)
MaxDelta == 5
MaxScrollSteps == 3

\* the offset applyJitter moves by in an iteration, << >> for none
JitterOffsets == {<< >>, <<1, 0 - 1>>}

NextScroll ==
    \/ \E t \in Owners, delta \in (0 - MaxDelta) .. MaxDelta, scroll_steps \in 1 .. MaxScrollSteps :
         \E jitter \in [1 .. scroll_steps -> JitterOffsets] :
             scrollHumanLike(t, delta, scroll_steps, jitter)
    \/ \E t \in Owners : TypedCheck(t)
    \/ \E t \in Owners : ExecuteCheck(t)
    \/ \E t \in Owners : ExecuteSend(t)
    \/ \E t \in Owners : Leave(t)
    \/ \E m \in Monitors : MonitorStep(m)
    \/ Unplug
    \/ Plug

SpecScroll == InitLive /\ [][NextScroll]_vars

RECURSIVE WheelDeltas(_)
\* the deltas of the km.wheel(...) commands among the written ones
WheelDeltas(written) ==
    IF written = << >> THEN << >>
    ELSE (IF StartsWith(Head(written), "km.wheel(")
          THEN <<CommandArgs(Head(written))[1]>> ELSE << >>)
         \o WheelDeltas(Tail(written))

RECURSIVE SumOf(_)
SumOf(numbers) == IF numbers = << >> THEN 0 ELSE Head(numbers) + SumOf(Tail(numbers))

\* C40: a scrollHumanLike(delta, scroll_steps) with scroll_steps > 0 all of
\* whose commands were sent has written exactly scroll_steps km.wheel
\* commands, and their deltas sum to delta
C40_ScrollSumsToDelta ==
    \A t \in Users :
        (op[t] = "scrollHumanLike" /\ pc[t] = "ret" /\ loc[t].res = TRUE /\ loc[t].acc) =>
            /\ Len(WheelDeltas(loc[t].wrote)) = loc[t].args.scroll_steps
            /\ SumOf(WheelDeltas(loc[t].wrote)) = loc[t].args.delta

====
